---- MODULE Spec2Model ----
(***************************************************************************)
(* XWaylandSurface: the bridge between one X11 window and its Mir scene    *)
(* surface (mir-src/server/frontend_xwayland/xwayland_surface.cpp).        *)
(*                                                                         *)
(* Two threads drive one bridge: "x11" (the XCB connection / window        *)
(* manager thread) and "wl" (the Wayland / compositor thread).  Every      *)
(* std::lock_guard section of the source is one atomic step; every call    *)
(* made outside the lock (XCB request, shell call) is a step of its own.   *)
(* is_transient_for is modelled a second time lock by lock (mutex), for    *)
(* the specification that calls it on two bridges at once.                 *)
(* Where the calls are logged (logging), an operation ends in pc = "done", *)
(* where its locals are gone and the calls it made and its result are in   *)
(* view, and Return takes the thread back to "idle"; elsewhere it returns  *)
(* to "idle" at once.                                                      *)
(***************************************************************************)
EXTENDS Integers, Sequences, FiniteSets, TLC

(***************************************************************************)
(* Bounds of the model.                                                    *)
(***************************************************************************)
\* number of attach_wl_surface() calls that get past the guard
MaxAttach == 2
\* coordinates and extents range over 0..MaxCoord
MaxCoord == 1

(***************************************************************************)
(* Program constants.                                                      *)
(***************************************************************************)
\* enum class WmState (ICCCM 4.1.3.1)
WITHDRAWN == 0
NORMAL == 1
ICONIC == 3
\* enum class Action of net_wm_state_client_message
REMOVE == 0
ADD == 1
TOGGLE == 2
\* XCB_CONFIG_WINDOW_X/Y/WIDTH/HEIGHT bits of a configure request's value mask
\* are modelled as the set of the names of the bits that are set
XCB_WINDOW_NONE == 0
\* map(): uint32_t const workspace = 1
workspace == 1

Threads == {"x11", "wl"}

\* the X window of the bridge under study, and the other windows of the server
OwnWindow == 1
OtherWindows == {2, 3}

\* optional values: <<>> is "not set", <<v>> is "set to v"
Unset == <<>>
Some(v) == <<v>>
IsSet(o) == Len(o) = 1
Value(o) == o[1]

\* atom 0 (XCB_ATOM_NONE): "if there is only one property, the 2nd is 0"
NoAtom == "0"

(***************************************************************************)
(* Window-State model                                                      *)
(***************************************************************************)
WindowStates ==
    [withdrawn : BOOLEAN, minimized : BOOLEAN, maximized : BOOLEAN, fullscreen : BOOLEAN]

\* MirWindowState, with mir_window_states the enumeration's end marker
MirWindowStates ==
    {"unknown", "restored", "minimized", "maximized", "vertmaximized",
     "fullscreen", "horizmaximized", "hidden", "attached", "mir_window_states"}

\* the state of a freshly constructed bridge: unmapped, nothing else set
InitialWindowState ==
    [withdrawn |-> TRUE, minimized |-> FALSE, maximized |-> FALSE, fullscreen |-> FALSE]

\* faulty variant of mir_window_state: fullscreen and maximized tested in the wrong order
mir_window_state_swapped(s) ==
    IF s.minimized THEN "minimized"
    ELSE IF s.maximized THEN "maximized"
    ELSE IF s.fullscreen THEN "fullscreen"
    ELSE "restored"

\* faulty variant of mir_window_state: a withdrawn window is taken for a hidden one
mir_window_state_withdrawn(s) ==
    IF s.withdrawn THEN "hidden"
    ELSE IF s.minimized THEN "minimized"
    ELSE IF s.fullscreen THEN "fullscreen"
    ELSE IF s.maximized THEN "maximized"
    ELSE "restored"

mir_window_state(s) ==
    IF s.minimized THEN "minimized"
    ELSE IF s.fullscreen THEN "fullscreen"
    ELSE IF s.maximized THEN "maximized"
    ELSE "restored"

\* faulty variant of updated_from: fullscreen also clears maximized
updated_from_exclusive(s, n) ==
    LET updated == [s EXCEPT !.withdrawn = FALSE] IN
    CASE n \in {"hidden", "minimized"} ->
            [updated EXCEPT !.minimized = TRUE]
      [] n = "fullscreen" ->
            [updated EXCEPT !.minimized = FALSE, !.maximized = FALSE, !.fullscreen = TRUE]
      [] n \in {"maximized", "vertmaximized", "horizmaximized"} ->
            [updated EXCEPT !.minimized = FALSE, !.maximized = TRUE, !.fullscreen = FALSE]
      [] n \in {"restored", "unknown", "attached"} ->
            [updated EXCEPT !.minimized = FALSE, !.maximized = FALSE, !.fullscreen = FALSE]
      [] OTHER -> updated

updated_from(s, n) ==
    LET updated == [s EXCEPT !.withdrawn = FALSE] IN
    CASE n \in {"hidden", "minimized"} ->
            [updated EXCEPT !.minimized = TRUE]
      [] n = "fullscreen" ->
            [updated EXCEPT !.minimized = FALSE, !.fullscreen = TRUE]
      [] n \in {"maximized", "vertmaximized", "horizmaximized"} ->
            [updated EXCEPT !.minimized = FALSE, !.maximized = TRUE, !.fullscreen = FALSE]
      [] n \in {"restored", "unknown", "attached"} ->
            [updated EXCEPT !.minimized = FALSE, !.maximized = FALSE, !.fullscreen = FALSE]
      [] OTHER -> updated

\* the WM_STATE value inform_client_of_window_state writes
wm_state_of(s) ==
    IF s.withdrawn THEN WITHDRAWN
    ELSE IF s.minimized THEN ICONIC
    ELSE NORMAL

\* faulty variant of net_wm_states_of: one state only, minimized before fullscreen
\* before maximized
net_wm_states_exclusive(s) ==
    IF s.minimized THEN <<"_NET_WM_STATE_HIDDEN">>
    ELSE IF s.fullscreen THEN <<"_NET_WM_STATE_FULLSCREEN">>
    ELSE IF s.maximized
         THEN <<"_NET_WM_STATE_MAXIMIZED_HORZ", "_NET_WM_STATE_MAXIMIZED_VERT">>
    ELSE <<>>

\* the _NET_WM_STATE atom list inform_client_of_window_state writes
net_wm_states_of(s) ==
    (IF s.minimized THEN <<"_NET_WM_STATE_HIDDEN">> ELSE <<>>)
    \o (IF s.maximized
        THEN <<"_NET_WM_STATE_MAXIMIZED_HORZ", "_NET_WM_STATE_MAXIMIZED_VERT">>
        ELSE <<>>)
    \o (IF s.fullscreen THEN <<"_NET_WM_STATE_FULLSCREEN">> ELSE <<>>)

(***************************************************************************)
(* Geometry, surface specifications and creation parameters                *)
(***************************************************************************)
Coords == 0..MaxCoord

\* geom::Point - geom::Displacement and geom::Point + geom::Displacement
Minus(p, d) == <<p[1] - d[1], p[2] - d[2]>>
Plus(p, d) == <<p[1] + d[1], p[2] + d[2]>>

\* msh::SurfaceSpecification: every field optional
EmptySpec ==
    [application_id |-> Unset, name |-> Unset, parent |-> Unset, top_left |-> Unset,
     aux_rect |-> Unset, placement |-> Unset, width |-> Unset, height |-> Unset,
     state |-> Unset]

\* SurfaceSpecification::is_empty()
is_empty(spec) == \A f \in DOMAIN spec : ~IsSet(spec[f])

(***************************************************************************)
(* State                                                                   *)
(***************************************************************************)
VARIABLES
    \* the bridge (XWaylandSurface members, guarded by its mutex)
    cached,                 \* override_redirect, top_left, size, supported_wm_protocols, state
    nullable_pending_spec,  \* Unset or Some(SurfaceSpecification)
    weak_scene_surface,     \* 0 or the id of the scene surface
    weak_session,           \* TRUE while the bridge refers to the client's session
    surface_observer,       \* 0 or the id of the XWaylandSurfaceObserver the bridge owns
    \* the shell / scene graph
    surfaces,               \* the scene surfaces created for this bridge, by id
    attach_count,           \* observers (and surfaces) made so far: the next id minus one
    \* the X server, as the XCB connection's requests leave it
    xwin,                   \* mapped, WM_STATE, _NET_WM_STATE, _NET_WM_DESKTOP of the window
    xprops,                 \* the properties the X client has set on the window
    \* the window manager (XWaylandWM) and the other windows' bridges
    xwm,
    \* the thread that holds each bridge's mutex across steps, or "free": a locked
    \* section that is one step takes and releases the mutex within the step
    mutex,
    \* the two threads: operation in progress, position in it, its argument and locals
    op, pc, arg, lstate, lsurf, lobs, lparent, lhandler, lspec, ltransient, params, result,
    \* the calls each thread's operation has made on the XCB connection and the shell,
    \* kept in the specifications that inspect them (logging)
    calls, logging,
    \* fatal_error() was called: the process is gone
    fatal,
    \* what a specification records of the past (each specification says what)
    history

bridge_vars == <<cached, nullable_pending_spec, weak_scene_surface, weak_session, surface_observer>>
shell_vars == <<surfaces, attach_count>>
env_vars == <<xprops, xwm, logging, mutex>>
thread_vars ==
    <<op, pc, arg, lstate, lsurf, lobs, lparent, lhandler, lspec, ltransient, params, calls,
      result>>
vars == <<bridge_vars, shell_vars, xwin, env_vars, thread_vars, fatal, history>>

SurfaceIds == 1..MaxAttach

\* the scene surface of another window's bridge
OtherSurfaceId(w) == 100 + w

NoSurface ==
    [status |-> "absent", observers |-> {}, state |-> "restored", top_left |-> <<0, 0>>,
     size |-> <<0, 0>>, parent |-> 0, application_id |-> "", name |-> "",
     server_side_decorated |-> FALSE]

NoParams ==
    [size |-> <<0, 0>>, top_left |-> <<0, 0>>, state |-> "restored",
     server_side_decorated |-> FALSE, application_id |-> Unset, name |-> Unset,
     parent |-> Unset, aux_rect |-> Unset, placement |-> Unset]

\* a scene surface object exists while the shell or a local shared_ptr holds it
SurfaceExists(k) ==
    /\ k \in SurfaceIds
    /\ \/ surfaces[k].status = "alive"
       \/ \E t \in Threads : lsurf[t] = k

\* std::weak_ptr<scene::Surface>::lock(): 0 stands for nullptr
Lock(weak) == IF SurfaceExists(weak) THEN weak ELSE 0

\* the owners of observer k: the bridge's surface_observer, the locals of the
\* operations in progress, and the scene surfaces it was added to
use_count(k) ==
    (IF surface_observer = k THEN 1 ELSE 0)
    + Cardinality({t \in Threads : lobs[t] = k})
    + Cardinality({j \in SurfaceIds : SurfaceExists(j) /\ k \in surfaces[j].observers})

\* scene::Surface::content_offset(): the decoration's title bar, if the server draws one
content_offset(k) ==
    IF k \in SurfaceIds /\ surfaces[k].server_side_decorated THEN <<0, 1>> ELSE <<0, 0>>

surface_top_left(k) == IF k \in SurfaceIds THEN surfaces[k].top_left ELSE <<0, 0>>

\* set_position(parent, top_left, spec)
set_position(parent, top_left, spec) ==
    IF parent # 0
    THEN [spec EXCEPT
            !.aux_rect = Some(<<Minus(Minus(top_left, surface_top_left(parent)), content_offset(parent)), <<1, 1>>>>),
            !.placement = Some("northwest")]
    ELSE [spec EXCEPT !.top_left = Some(top_left)]

\* pending_spec(lock): the pending specification, created when there is none
pending_spec == IF IsSet(nullable_pending_spec) THEN Value(nullable_pending_spec) ELSE EmptySpec

\* SurfaceCreationParameters::update_from(spec): the fields set in spec replace params'
update_from_spec(p, spec) ==
    [p EXCEPT
        !.application_id = IF IsSet(spec.application_id) THEN spec.application_id ELSE @,
        !.name = IF IsSet(spec.name) THEN spec.name ELSE @,
        !.parent = IF IsSet(spec.parent) THEN spec.parent ELSE @,
        !.top_left = IF IsSet(spec.top_left) THEN Value(spec.top_left) ELSE @,
        !.aux_rect = IF IsSet(spec.aux_rect) THEN spec.aux_rect ELSE @,
        !.placement = IF IsSet(spec.placement) THEN spec.placement ELSE @,
        !.size = <<IF IsSet(spec.width) THEN Value(spec.width) ELSE @[1],
                   IF IsSet(spec.height) THEN Value(spec.height) ELSE @[2]>>,
        !.state = IF IsSet(spec.state) THEN Value(spec.state) ELSE @]

\* one call on the XCB connection or on the shell, as recorded per operation
Call(name, prop, val) == [call |-> name, prop |-> prop, val |-> val]
Made(t, cs) == calls' = IF logging THEN [calls EXCEPT ![t] = @ \o cs] ELSE calls
CountCalls(t, name) == Cardinality({i \in DOMAIN calls[t] : calls[t][i].call = name})

Goto(t, label) == pc' = [pc EXCEPT ![t] = label]

\* the locals an operation's stack frame holds
NoLocals(t) ==
    /\ lstate' = [lstate EXCEPT ![t] = InitialWindowState]
    /\ lsurf' = [lsurf EXCEPT ![t] = 0]
    /\ lobs' = [lobs EXCEPT ![t] = 0]
    /\ lparent' = [lparent EXCEPT ![t] = 0]
    /\ lhandler' = [lhandler EXCEPT ![t] = NoAtom]
    /\ lspec' = [lspec EXCEPT ![t] = Unset]
    /\ ltransient' = [ltransient EXCEPT ![t] = XCB_WINDOW_NONE]

\* thread t is free to take a call
Begin(t) ==
    /\ ~fatal
    /\ pc[t] = "idle"

\* a call of operation o with argument a starts on the idle thread t
Start(t, o, a) ==
    /\ Begin(t)
    /\ op' = [op EXCEPT ![t] = o]
    /\ arg' = [arg EXCEPT ![t] = a]

At(t, o, label) ==
    /\ ~fatal
    /\ op[t] = o
    /\ pc[t] = label

\* the create notify events a bridge may be constructed from
CreateEvents ==
    [x : Coords, y : Coords, width : Coords, height : Coords, override_redirect : BOOLEAN]

\* XWaylandSurface::XWaylandSurface and the members' default initialisers
Constructed(event) ==
    /\ cached = [override_redirect |-> event.override_redirect,
                 top_left |-> <<event.x, event.y>>,
                 size |-> <<event.width, event.height>>,
                 supported_wm_protocols |-> {},
                 state |-> InitialWindowState]
    /\ nullable_pending_spec = Unset
    /\ weak_scene_surface = 0
    /\ weak_session = FALSE
    /\ surface_observer = 0

ThreadsIdle ==
    /\ op = [t \in Threads |-> "none"]
    /\ pc = [t \in Threads |-> "idle"]
    /\ arg = [t \in Threads |-> <<>>]
    /\ lstate = [t \in Threads |-> InitialWindowState]
    /\ lsurf = [t \in Threads |-> 0]
    /\ lobs = [t \in Threads |-> 0]
    /\ lparent = [t \in Threads |-> 0]
    /\ lhandler = [t \in Threads |-> NoAtom]
    /\ lspec = [t \in Threads |-> Unset]
    /\ ltransient = [t \in Threads |-> XCB_WINDOW_NONE]
    /\ params = NoParams
    /\ calls = [t \in Threads |-> <<>>]
    /\ result = [t \in Threads |-> "none"]
    /\ mutex = [w \in {OwnWindow} \cup OtherWindows |-> "free"]
    /\ fatal = FALSE

\* a new, unmapped window with no properties, in a server with no other bridge
FreshServer ==
    /\ surfaces = [k \in SurfaceIds |-> NoSurface]
    /\ attach_count = 0
    /\ xwin = [mapped |-> FALSE, wm_state |-> Unset, net_wm_state |-> Unset, desktop |-> Unset]
    /\ xprops = [wm_class |-> Unset, wm_name |-> Unset, net_wm_name |-> Unset,
                 transient_for |-> Unset, wm_protocols |-> Unset]
    /\ xwm = [bridges |-> {OwnWindow}, with_surface |-> {}, focused |-> XCB_WINDOW_NONE]

\* the properties of a typical client's window; window 2 has no bridge
TypicalClient ==
    /\ surfaces = [k \in SurfaceIds |-> NoSurface]
    /\ attach_count = 0
    /\ xwin = [mapped |-> FALSE, wm_state |-> Unset, net_wm_state |-> Unset, desktop |-> Unset]
    /\ xprops = [wm_class |-> Some("a"), wm_name |-> Some("a"), net_wm_name |-> Unset,
                 transient_for |-> Some(2), wm_protocols |-> Some({"WM_DELETE_WINDOW"})]
    /\ xwm = [bridges |-> {OwnWindow}, with_surface |-> {}, focused |-> XCB_WINDOW_NONE]

\* the create event of a window at (0, 1), 1 wide and 0 high
CornerEvent == [x |-> 0, y |-> 1, width |-> 1, height |-> 0, override_redirect |-> FALSE]

Init ==
    /\ Constructed(CornerEvent)
    /\ FreshServer
    /\ ThreadsIdle
    /\ logging = FALSE
    /\ history = <<>>

(***************************************************************************)
(* The end of every operation                                              *)
(***************************************************************************)
\* operation o, called with a, returns (or its exception propagates): the frame
\* is gone.  Where the calls are logged the thread stops in "done", with the
\* operation, its argument, its calls and its result in view, until Return
FinishAt(t, o, a, r) ==
    /\ NoLocals(t)
    /\ IF logging
       THEN /\ Goto(t, "done")
            /\ result' = [result EXCEPT ![t] = r]
            /\ op' = [op EXCEPT ![t] = o]
            /\ arg' = [arg EXCEPT ![t] = a]
       ELSE /\ Goto(t, "idle")
            /\ op' = [op EXCEPT ![t] = "none"]
            /\ arg' = [arg EXCEPT ![t] = <<>>]
            /\ UNCHANGED result

\* the operation in progress on t ends
Finish(t, r) == FinishAt(t, op[t], arg[t], r)

Return(t) ==
    /\ ~fatal
    /\ pc[t] = "done"
    /\ Goto(t, "idle")
    /\ op' = [op EXCEPT ![t] = "none"]
    /\ arg' = [arg EXCEPT ![t] = <<>>]
    /\ calls' = [calls EXCEPT ![t] = <<>>]
    /\ result' = [result EXCEPT ![t] = "none"]
    /\ params' = IF t = "wl" THEN NoParams ELSE params
    /\ UNCHANGED <<bridge_vars, shell_vars, xwin, env_vars, lstate, lsurf, lobs, lparent, lhandler, lspec, ltransient, fatal>>

(***************************************************************************)
(* inform_client_of_window_state(lstate[t]) and                            *)
(* request_scene_surface_state(lstate[t].mir_window_state()), as called    *)
(* from the operations                                                     *)
(***************************************************************************)
\* the operations that push a window state to the client
Informers ==
    {"map", "close", "attach", "net_wm_state", "wm_change_state", "scene_surface_state_set"}

\* faulty variant of AfterInform: map() does not request the state from the scene graph
AfterInformMaps(o) ==
    CASE o = "map" -> "map_window"
      [] o = "close" -> "close_unmap"
      [] o = "attach" -> "attach_configure"
      [] o = "net_wm_state" -> "request_lock"
      [] o = "wm_change_state" -> "request_lock"
      [] o = "scene_surface_state_set" -> "state_set_lower"

\* where the caller goes on when inform_client_of_window_state returns
AfterInform(o) ==
    CASE o = "map" -> "request_lock"
      [] o = "close" -> "close_unmap"
      [] o = "attach" -> "attach_configure"
      [] o = "net_wm_state" -> "request_lock"
      [] o = "wm_change_state" -> "request_lock"
      [] o = "scene_surface_state_set" -> "state_set_lower"

\* faulty variant of InformLock: the equality test is dropped, every push is written
InformLockAlways(t) ==
    /\ ~fatal
    /\ op[t] \in Informers
    /\ pc[t] = "inform_lock"
    /\ cached' = [cached EXCEPT !.state = lstate[t]]
    /\ Goto(t, "inform_wm_state")
    /\ UNCHANGED <<nullable_pending_spec, weak_scene_surface, weak_session, surface_observer,
                   shell_vars, xwin, env_vars, op, arg, lstate, lsurf, lobs, lparent, lhandler, lspec, ltransient, params,
                   calls, result, fatal>>

\* the locked section: return if nothing changes, else store the new state
InformLock(t) ==
    /\ ~fatal
    /\ op[t] \in Informers
    /\ pc[t] = "inform_lock"
    /\ IF lstate[t] = cached.state
       THEN /\ Goto(t, AfterInform(op[t]))
            /\ UNCHANGED cached
       ELSE /\ cached' = [cached EXCEPT !.state = lstate[t]]
            /\ Goto(t, "inform_wm_state")
    /\ UNCHANGED <<nullable_pending_spec, weak_scene_surface, weak_session, surface_observer,
                   shell_vars, xwin, env_vars, op, arg, lstate, lsurf, lobs, lparent, lhandler, lspec, ltransient, params,
                   calls, result, fatal>>

\* connection->set_property<XCBType::WM_STATE>(...)
InformWmState(t) ==
    /\ ~fatal
    /\ op[t] \in Informers
    /\ pc[t] = "inform_wm_state"
    /\ xwin' = [xwin EXCEPT !.wm_state = Some(wm_state_of(lstate[t]))]
    /\ Made(t, <<Call("set_property", "WM_STATE", wm_state_of(lstate[t]))>>)
    /\ Goto(t, "inform_net_wm_state")
    /\ UNCHANGED <<bridge_vars, shell_vars, env_vars, op, arg, lstate, lsurf, lobs, lparent, lhandler, lspec, ltransient,
                   params, result, fatal>>

\* xcb_delete_property or set_property<XCBType::ATOM> of _NET_WM_STATE, then flush
InformNetWmState(t) ==
    /\ ~fatal
    /\ op[t] \in Informers
    /\ pc[t] = "inform_net_wm_state"
    /\ IF lstate[t].withdrawn
       THEN /\ xwin' = [xwin EXCEPT !.net_wm_state = Unset]
            /\ Made(t, <<Call("delete_property", "_NET_WM_STATE", <<>>),
                         Call("flush", "", <<>>)>>)
       ELSE /\ xwin' = [xwin EXCEPT !.net_wm_state = Some(net_wm_states_of(lstate[t]))]
            /\ Made(t, <<Call("set_property", "_NET_WM_STATE", net_wm_states_of(lstate[t])),
                         Call("flush", "", <<>>)>>)
    /\ Goto(t, AfterInform(op[t]))
    /\ UNCHANGED <<bridge_vars, shell_vars, env_vars, op, arg, lstate, lsurf, lobs, lparent, lhandler, lspec, ltransient,
                   params, result, fatal>>

\* the operations that request a state from the scene graph
Requesters == {"map", "net_wm_state", "wm_change_state"}

\* request_scene_surface_state: the locked section
RequestLock(t) ==
    /\ ~fatal
    /\ op[t] \in Requesters
    /\ pc[t] = "request_lock"
    /\ lsurf' = [lsurf EXCEPT ![t] = Lock(weak_scene_surface)]
    /\ Goto(t, "request_modify")
    /\ UNCHANGED <<bridge_vars, shell_vars, xwin, env_vars, op, arg, lstate, lobs, lparent, lhandler, lspec, ltransient,
                   params, calls, result, fatal>>

\* shell->modify_surface(session, scene_surface, mods) with mods.state = s: the
\* shell gives the surface that state
modify_surface_state(k, s) == [surfaces EXCEPT ![k].state = s]

\* request_scene_surface_state: modify the surface if its state differs
RequestModify(t) ==
    /\ ~fatal
    /\ op[t] \in Requesters
    /\ pc[t] = "request_modify"
    /\ LET new_state == mir_window_state(lstate[t])
           k == lsurf[t]
       IN IF k # 0 /\ surfaces[k].state # new_state
          THEN /\ surfaces' = modify_surface_state(k, new_state)
               /\ Made(t, <<Call("modify_surface", "state", new_state)>>)
          ELSE UNCHANGED <<surfaces, calls>>
    /\ IF op[t] = "map"
       THEN /\ Goto(t, "map_window")
            /\ lsurf' = [lsurf EXCEPT ![t] = 0]
            /\ UNCHANGED <<op, arg, result, lstate, lobs, lparent, lhandler, lspec, ltransient>>
       ELSE Finish(t, "ok")
    /\ UNCHANGED <<bridge_vars, attach_count, xwin, env_vars, params, fatal>>

(***************************************************************************)
(* map()                                                                   *)
(***************************************************************************)
MapBegin(t) ==
    /\ Start(t, "map", <<>>)
    /\ lstate' = [lstate EXCEPT ![t] = cached.state]
    /\ Goto(t, "map_desktop")
    /\ UNCHANGED <<bridge_vars, shell_vars, xwin, env_vars, lsurf, lobs, lparent, lhandler, lspec, ltransient, params,
                   calls, result, fatal>>

\* faulty variant of MapDesktop: the withdrawn flag is not cleared
MapDesktopKeepsWithdrawn(t) ==
    /\ At(t, "map", "map_desktop")
    /\ xwin' = [xwin EXCEPT !.desktop = Some(workspace)]
    /\ Made(t, <<Call("set_property", "_NET_WM_DESKTOP", workspace)>>)
    /\ Goto(t, "inform_lock")
    /\ UNCHANGED <<bridge_vars, shell_vars, env_vars, op, arg, lstate, lsurf, lobs, lparent, lhandler, lspec,
                   ltransient, params, result, fatal>>

\* set _NET_WM_DESKTOP; state.withdrawn = false
MapDesktop(t) ==
    /\ At(t, "map", "map_desktop")
    /\ xwin' = [xwin EXCEPT !.desktop = Some(workspace)]
    /\ Made(t, <<Call("set_property", "_NET_WM_DESKTOP", workspace)>>)
    /\ lstate' = [lstate EXCEPT ![t].withdrawn = FALSE]
    /\ Goto(t, "inform_lock")
    /\ UNCHANGED <<bridge_vars, shell_vars, env_vars, op, arg, lsurf, lobs, lparent, lhandler, lspec, ltransient, params,
                   result, fatal>>

\* xcb_map_window; flush
MapWindow(t) ==
    /\ At(t, "map", "map_window")
    /\ xwin' = [xwin EXCEPT !.mapped = TRUE]
    /\ Made(t, <<Call("map_window", "", <<>>), Call("flush", "", <<>>)>>)
    /\ Finish(t, "ok")
    /\ UNCHANGED <<bridge_vars, shell_vars, env_vars, params, fatal>>

(***************************************************************************)
(* close()                                                                 *)
(***************************************************************************)
\* faulty variant of CloseBegin: the session reference is not reset
CloseBeginKeepsSession(t) ==
    /\ Start(t, "close", <<>>)
    /\ lstate' = [lstate EXCEPT ![t] = cached.state]
    /\ lsurf' = [lsurf EXCEPT ![t] = Lock(weak_scene_surface)]
    /\ weak_scene_surface' = 0
    /\ lobs' = [lobs EXCEPT ![t] = surface_observer]
    /\ surface_observer' = 0
    /\ Goto(t, "close_desktop")
    /\ UNCHANGED <<cached, nullable_pending_spec, weak_session, shell_vars, xwin, env_vars, lparent, lhandler,
                   lspec, ltransient, params, calls, result, fatal>>

\* faulty variant of CloseBegin: the scene surface reference is read but not reset
CloseBeginKeepsSurface(t) ==
    /\ Start(t, "close", <<>>)
    /\ lstate' = [lstate EXCEPT ![t] = cached.state]
    /\ lsurf' = [lsurf EXCEPT ![t] = Lock(weak_scene_surface)]
    /\ weak_session' = FALSE
    /\ lobs' = [lobs EXCEPT ![t] = surface_observer]
    /\ surface_observer' = 0
    /\ Goto(t, "close_desktop")
    /\ UNCHANGED <<cached, nullable_pending_spec, weak_scene_surface, shell_vars, xwin, env_vars,
                   lparent, lhandler, lspec, ltransient, params, calls, result, fatal>>

\* the locked section: snapshot and clear the three references
CloseBegin(t) ==
    /\ Start(t, "close", <<>>)
    /\ lstate' = [lstate EXCEPT ![t] = cached.state]
    /\ lsurf' = [lsurf EXCEPT ![t] = Lock(weak_scene_surface)]
    /\ weak_scene_surface' = 0
    /\ weak_session' = FALSE
    /\ lobs' = [lobs EXCEPT ![t] = surface_observer]
    /\ surface_observer' = 0
    /\ Goto(t, "close_desktop")
    /\ UNCHANGED <<cached, nullable_pending_spec, shell_vars, xwin, env_vars, lparent, lhandler, lspec, ltransient, params,
                   calls, result, fatal>>

\* delete _NET_WM_DESKTOP; state.withdrawn = true
CloseDesktop(t) ==
    /\ At(t, "close", "close_desktop")
    /\ xwin' = [xwin EXCEPT !.desktop = Unset]
    /\ Made(t, <<Call("delete_property", "_NET_WM_DESKTOP", <<>>)>>)
    /\ lstate' = [lstate EXCEPT ![t].withdrawn = TRUE]
    /\ Goto(t, "inform_lock")
    /\ UNCHANGED <<bridge_vars, shell_vars, env_vars, op, arg, lsurf, lobs, lparent, lhandler, lspec, ltransient, params,
                   result, fatal>>

\* xcb_unmap_window; flush
CloseUnmap(t) ==
    /\ At(t, "close", "close_unmap")
    /\ xwin' = [xwin EXCEPT !.mapped = FALSE]
    /\ Made(t, <<Call("unmap_window", "", <<>>), Call("flush", "", <<>>)>>)
    /\ Goto(t, "close_remove_observer")
    /\ UNCHANGED <<bridge_vars, shell_vars, env_vars, op, arg, lstate, lsurf, lobs, lparent, lhandler, lspec, ltransient,
                   params, result, fatal>>

\* faulty variant of CloseRemoveObserver: the observer stays on the scene surface
CloseLeavesObserver(t) ==
    /\ At(t, "close", "close_remove_observer")
    /\ Goto(t, "close_destroy")
    /\ UNCHANGED <<bridge_vars, shell_vars, xwin, env_vars, op, arg, lstate, lsurf, lobs,
                   lparent, lhandler, lspec, ltransient, params, calls, result, fatal>>

\* if (scene_surface && observer) scene_surface->remove_observer(observer)
CloseRemoveObserver(t) ==
    /\ At(t, "close", "close_remove_observer")
    /\ IF lsurf[t] # 0 /\ lobs[t] # 0
       THEN /\ surfaces' = [surfaces EXCEPT ![lsurf[t]].observers = @ \ {lobs[t]}]
            /\ Made(t, <<Call("remove_observer", "", lobs[t])>>)
       ELSE UNCHANGED <<surfaces, calls>>
    /\ Goto(t, "close_destroy")
    /\ UNCHANGED <<bridge_vars, attach_count, xwin, env_vars, op, arg, lstate, lsurf, lobs,
                   lparent, lhandler, lspec, ltransient, params, result, fatal>>

\* if (scene_surface) { shell->destroy_surface(...); scene_surface.reset(); }
CloseDestroy(t) ==
    /\ At(t, "close", "close_destroy")
    /\ IF lsurf[t] # 0
       THEN /\ surfaces' = [surfaces EXCEPT ![lsurf[t]].status = "destroyed"]
            /\ Made(t, <<Call("destroy_surface", "", lsurf[t])>>)
       ELSE UNCHANGED <<surfaces, calls>>
    /\ lsurf' = [lsurf EXCEPT ![t] = 0]
    /\ Goto(t, "close_observer")
    /\ UNCHANGED <<bridge_vars, attach_count, xwin, env_vars, op, arg, lstate, lobs, lparent, lhandler, lspec, ltransient,
                   params, result, fatal>>

\* if (observer) { observer.reset(); if (weak_observer.lock()) fatal_error(...); }
CloseObserver(t) ==
    /\ At(t, "close", "close_observer")
    /\ fatal' = (lobs[t] # 0 /\ use_count(lobs[t]) > 1)
    /\ Finish(t, "ok")
    /\ UNCHANGED <<bridge_vars, shell_vars, xwin, env_vars, params, calls>>

(***************************************************************************)
(* net_wm_state_client_message(data)                                       *)
(***************************************************************************)
\* the (first, second) property pairs the client messages of the model carry
NetWmStateProperties ==
    {<<"_NET_WM_STATE_HIDDEN", NoAtom>>,
     <<"_NET_WM_STATE_MAXIMIZED_HORZ", NoAtom>>,
     <<"_NET_WM_STATE_FULLSCREEN", NoAtom>>,
     <<"_NET_WM_STATE_MAXIMIZED_VERT", "_NET_WM_STATE_MAXIMIZED_HORZ">>,
     <<"_NET_WM_STATE_ABOVE", NoAtom>>}

Actions == {REMOVE, ADD, TOGGLE}

\* faulty variant of apply_action: TOGGLE sets the flag
apply_action_sets(action, v) ==
    CASE action = REMOVE -> FALSE
      [] action = ADD -> TRUE
      [] action = TOGGLE -> TRUE
      [] OTHER -> v

\* switch (action) on *prop_ptr
apply_action(action, v) ==
    CASE action = REMOVE -> FALSE
      [] action = ADD -> TRUE
      [] action = TOGGLE -> ~v
      [] OTHER -> v

\* the body of the loop over the two properties
apply_property(s, action, property) ==
    IF property = NoAtom THEN s
    ELSE IF property = "_NET_WM_STATE_HIDDEN"
         THEN [s EXCEPT !.minimized = apply_action(action, @)]
    ELSE IF property = "_NET_WM_STATE_MAXIMIZED_HORZ"
         THEN [s EXCEPT !.maximized = apply_action(action, @)]
    ELSE IF property = "_NET_WM_STATE_FULLSCREEN"
         THEN [s EXCEPT !.fullscreen = apply_action(action, @)]
    ELSE s

NetWmStateBegin(t, action, properties) ==
    /\ Start(t, "net_wm_state", <<action, properties[1], properties[2]>>)
    /\ lstate' = [lstate EXCEPT ![t] =
            apply_property(apply_property(cached.state, action, properties[1]),
                           action, properties[2])]
    /\ Goto(t, "inform_lock")
    /\ UNCHANGED <<bridge_vars, shell_vars, xwin, env_vars, lsurf, lobs, lparent, lhandler, lspec, ltransient, params,
                   calls, result, fatal>>

(***************************************************************************)
(* wm_change_state_client_message(data)                                    *)
(***************************************************************************)
\* data[0] of the client messages of the model: the three WmState values and one more
RequestedStates == {WITHDRAWN, NORMAL, 2, ICONIC}

\* faulty variant of requested_minimized: every value but NORMAL is taken for ICONIC
requested_minimized_lenient(requested_state) == Some(requested_state # NORMAL)

\* switch (requested_state): the minimized flag asked for, none in the default case
requested_minimized(requested_state) ==
    IF requested_state = NORMAL THEN Some(FALSE)
    ELSE IF requested_state = ICONIC THEN Some(TRUE)
    ELSE Unset

WmChangeStateBegin(t, requested_state) ==
    /\ Begin(t)
    /\ IF IsSet(requested_minimized(requested_state))
       THEN /\ lstate' = [lstate EXCEPT ![t] =
                    [cached.state EXCEPT !.minimized = Value(requested_minimized(requested_state))]]
            /\ Goto(t, "inform_lock")
            /\ op' = [op EXCEPT ![t] = "wm_change_state"]
            /\ arg' = [arg EXCEPT ![t] = <<requested_state>>]
            /\ UNCHANGED <<lsurf, lobs, lparent, lhandler, lspec, ltransient, result>>
       ELSE \* BOOST_THROW_EXCEPTION(std::runtime_error(...))
            FinishAt(t, "wm_change_state", <<requested_state>>, "fault")
    /\ UNCHANGED <<bridge_vars, shell_vars, xwin, env_vars, params, calls, fatal>>

(***************************************************************************)
(* scene_surface_state_set(new_state), called by the surface observer      *)
(***************************************************************************)
\* an observer delivers scene surface events while a scene surface holds it
ObserverAttached == \E k \in SurfaceIds : SurfaceExists(k) /\ surfaces[k].observers # {}

SceneSurfaceStateSetBegin(t, new_state) ==
    /\ ObserverAttached
    /\ Start(t, "scene_surface_state_set", <<new_state>>)
    /\ lstate' = [lstate EXCEPT ![t] = updated_from(cached.state, new_state)]
    /\ Goto(t, "inform_lock")
    /\ UNCHANGED <<bridge_vars, shell_vars, xwin, env_vars, lsurf, lobs, lparent, lhandler, lspec, ltransient, params,
                   calls, result, fatal>>

\* if (new_state == mir_window_state_minimized || new_state == mir_window_state_minimized)
\*     configure_window(window, nullopt, nullopt, nullopt, XCB_STACK_MODE_BELOW)
SceneSurfaceStateSetLower(t) ==
    /\ At(t, "scene_surface_state_set", "state_set_lower")
    /\ IF arg[t][1] = "minimized" \/ arg[t][1] = "minimized"
       THEN Made(t, <<Call("configure_window", "stack_mode",
                           [top_left |-> Unset, size |-> Unset, stack_mode |-> Some("BELOW")])>>)
       ELSE UNCHANGED calls
    /\ Finish(t, "ok")
    /\ UNCHANGED <<bridge_vars, shell_vars, xwin, env_vars, params, fatal>>

(***************************************************************************)
(* The property handlers (property_handlers, built by the constructor) and *)
(* is_transient_for                                                        *)
(***************************************************************************)
\* the property_handlers map, in the order of its keys: the predefined atoms
\* WM_NAME (39), WM_CLASS (67), WM_TRANSIENT_FOR (68), then the interned ones
HandlerAtoms == <<"WM_NAME", "WM_CLASS", "WM_TRANSIENT_FOR", "_NET_WM_NAME", "WM_PROTOCOLS">>
Handled == {HandlerAtoms[i] : i \in DOMAIN HandlerAtoms}

\* the X property a handler's read_property() reads
PropertyOf(atom) ==
    CASE atom = "WM_NAME" -> xprops.wm_name
      [] atom = "WM_CLASS" -> xprops.wm_class
      [] atom = "WM_TRANSIENT_FOR" -> xprops.transient_for
      [] atom = "_NET_WM_NAME" -> xprops.net_wm_name
      [] atom = "WM_PROTOCOLS" -> xprops.wm_protocols

\* the handler after atom in attach_wl_surface's loop over the reply functions
NextHandler(atom) ==
    LET i == CHOOSE j \in DOMAIN HandlerAtoms : HandlerAtoms[j] = atom
    IN IF i < Len(HandlerAtoms) THEN HandlerAtoms[i + 1] ELSE NoAtom

locals == <<lstate, lsurf, lobs, lparent, lhandler, lspec, ltransient>>

\* the operations that run property handlers
Fetchers == {"attach", "property_notify"}

\* a reply function has returned: on to the next one, or to the consumption
HandlerDone(t) ==
    IF op[t] = "attach" /\ NextHandler(lhandler[t]) # NoAtom
    THEN /\ Goto(t, "reply")
         /\ lhandler' = [lhandler EXCEPT ![t] = NextHandler(lhandler[t])]
    ELSE /\ Goto(t, IF op[t] = "attach" THEN "attach_consume" ELSE "notify_consume")
         /\ lhandler' = [lhandler EXCEPT ![t] = NoAtom]

\* what the handler of atom stores, given the property's value (Unset: the read failed)
handler_spec(atom, value) ==
    CASE atom = "WM_CLASS" /\ IsSet(value) ->
            Some([pending_spec EXCEPT !.application_id = value])
      [] atom \in {"WM_NAME", "_NET_WM_NAME"} /\ IsSet(value) ->
            Some([pending_spec EXCEPT !.name = value])
      [] OTHER -> nullable_pending_spec

handler_protocols(atom, value) ==
    IF atom = "WM_PROTOCOLS"
    THEN (IF IsSet(value) THEN Value(value) ELSE {})
    ELSE cached.supported_wm_protocols

\* the reply function of a handler other than WM_TRANSIENT_FOR's: wait for the
\* reply, then run the handler (or on_error) under the lock
HandlerReply(t) ==
    /\ ~fatal
    /\ op[t] \in Fetchers
    /\ pc[t] = "reply"
    /\ lhandler[t] \in Handled \ {"WM_TRANSIENT_FOR"}
    /\ nullable_pending_spec' = handler_spec(lhandler[t], PropertyOf(lhandler[t]))
    /\ cached' = [cached EXCEPT
            !.supported_wm_protocols = handler_protocols(lhandler[t], PropertyOf(lhandler[t]))]
    /\ HandlerDone(t)
    /\ UNCHANGED <<weak_scene_surface, weak_session, surface_observer, shell_vars, xwin,
                   env_vars, op, arg, lstate, lsurf, lobs, lparent, lspec, ltransient, params, calls,
                   result, fatal>>

\* get_scene_surface_from(xcb_window): 0 stands for nullptr
get_scene_surface_from(xcb_window) ==
    IF xcb_window \notin xwm.bridges THEN 0
    ELSE IF xcb_window = OwnWindow THEN Lock(weak_scene_surface)
    ELSE IF xcb_window \in xwm.with_surface THEN OtherSurfaceId(xcb_window)
    ELSE 0

\* the window is_transient_for is called with: the property, or XCB_WINDOW_NONE on error
TransientForOf(value) == IF IsSet(value) THEN Value(value) ELSE XCB_WINDOW_NONE

first_lookup(transient_for) ==
    IF transient_for # XCB_WINDOW_NONE THEN get_scene_surface_from(transient_for) ELSE 0

\* is_transient_for: the reply arrives; look the transient-for window up
TransientLookup(t) ==
    /\ ~fatal
    /\ op[t] \in Fetchers
    /\ pc[t] = "reply"
    /\ lhandler[t] = "WM_TRANSIENT_FOR"
    /\ LET transient_for == TransientForOf(xprops.transient_for)
       IN /\ lparent' = [lparent EXCEPT ![t] = first_lookup(transient_for)]
          /\ Goto(t, IF transient_for # XCB_WINDOW_NONE
                     THEN "transient_fallback" ELSE "transient_write")
          /\ ltransient' = [ltransient EXCEPT ![t] = transient_for]
    /\ UNCHANGED <<bridge_vars, shell_vars, xwin, env_vars, op, arg, lstate, lsurf, lobs,
                   lhandler, lspec, params, calls, result, fatal>>

\* faulty variant of focused_lookup: the fallback to the focused window is left out
no_fallback(parent) == parent

\* if (!parent_scene_surface) fall back to the focused window's scene surface
focused_lookup(parent) ==
    IF parent = 0 /\ xwm.focused # XCB_WINDOW_NONE
    THEN get_scene_surface_from(xwm.focused)
    ELSE parent

TransientFallback(t) ==
    /\ ~fatal
    /\ op[t] \in Fetchers
    /\ pc[t] = "transient_fallback"
    /\ lparent' = [lparent EXCEPT ![t] = focused_lookup(lparent[t])]
    /\ Goto(t, "transient_write")
    /\ UNCHANGED <<bridge_vars, shell_vars, xwin, env_vars, op, arg, lstate, lsurf, lobs,
                   lhandler, lspec, ltransient, params, calls, result, fatal>>

\* the locked section that ends is_transient_for
TransientWrite(t) ==
    /\ ~fatal
    /\ op[t] \in Fetchers
    /\ pc[t] = "transient_write"
    /\ nullable_pending_spec' =
            Some(set_position(lparent[t], cached.top_left,
                              [pending_spec EXCEPT !.parent = Some(lparent[t])]))
    /\ HandlerDone(t)
    /\ lparent' = [lparent EXCEPT ![t] = 0]
    /\ ltransient' = [ltransient EXCEPT ![t] = XCB_WINDOW_NONE]
    /\ UNCHANGED <<cached, weak_scene_surface, weak_session, surface_observer, shell_vars,
                   xwin, env_vars, op, arg, lstate, lsurf, lobs, lspec, params, calls,
                   result, fatal>>

(***************************************************************************)
(* The shell (msh::Shell), at its interface                                *)
(***************************************************************************)
\* shell->create_surface(session, params, observer): the surface the shell makes,
\* with the observer added to it
created_surface(p, observer) ==
    [status |-> "alive",
     observers |-> {observer},
     state |-> p.state,
     top_left |-> p.top_left,
     size |-> p.size,
     parent |-> IF IsSet(p.parent) THEN Value(p.parent) ELSE 0,
     application_id |-> IF IsSet(p.application_id) THEN Value(p.application_id) ELSE "",
     name |-> IF IsSet(p.name) THEN Value(p.name) ELSE "",
     server_side_decorated |-> p.server_side_decorated]

\* shell->modify_surface(session, surface, mods): the surface takes every field set in mods
modified_surface(surface, mods) ==
    LET parent == IF IsSet(mods.parent) THEN Value(mods.parent) ELSE surface.parent
    IN [surface EXCEPT
          !.application_id = IF IsSet(mods.application_id) THEN Value(mods.application_id) ELSE @,
          !.name = IF IsSet(mods.name) THEN Value(mods.name) ELSE @,
          !.parent = parent,
          !.top_left = IF IsSet(mods.aux_rect) /\ parent # 0
                       THEN Plus(Plus(surface_top_left(parent), content_offset(parent)),
                                 Value(mods.aux_rect)[1])
                       ELSE IF IsSet(mods.top_left) THEN Value(mods.top_left)
                       ELSE @,
          !.size = <<IF IsSet(mods.width) THEN Value(mods.width) ELSE @[1],
                     IF IsSet(mods.height) THEN Value(mods.height) ELSE @[2]>>,
          !.state = IF IsSet(mods.state) THEN Value(mods.state) ELSE @]

(***************************************************************************)
(* attach_wl_surface(wl_surface)                                           *)
(***************************************************************************)
\* the guard of the first locked section
AlreadyAttached == surface_observer # 0 \/ weak_session \/ Lock(weak_scene_surface) # 0

\* faulty variant of attach_params: the decoration flag is not negated
attach_params_undecorated ==
    [NoParams EXCEPT
        !.size = cached.size,
        !.top_left = cached.top_left,
        !.state = mir_window_state([cached.state EXCEPT !.withdrawn = FALSE]),
        !.server_side_decorated = cached.override_redirect]

\* the creation parameters the first locked section fills in
attach_params ==
    [NoParams EXCEPT
        !.size = cached.size,
        !.top_left = cached.top_left,
        !.state = mir_window_state([cached.state EXCEPT !.withdrawn = FALSE]),
        !.server_side_decorated = ~cached.override_redirect]

\* faulty variant of AttachGuard: a bridge that was attached once stays refused
AttachGuardOnce == AlreadyAttached \/ attach_count > 0

AttachGuard == AlreadyAttached

\* make the observer; the first locked section
AttachBegin(t) ==
    /\ Begin(t)
    /\ IF AttachGuard
       THEN \* BOOST_THROW_EXCEPTION(std::runtime_error("... called multiple times"))
            /\ FinishAt(t, "attach", <<>>, "fault")
            /\ UNCHANGED <<bridge_vars, attach_count, params>>
       ELSE /\ attach_count < MaxAttach
            /\ attach_count' = attach_count + 1
            /\ surface_observer' = attach_count + 1
            /\ weak_session' = TRUE
            /\ lobs' = [lobs EXCEPT ![t] = attach_count + 1]
            /\ lstate' = [lstate EXCEPT ![t] = [cached.state EXCEPT !.withdrawn = FALSE]]
            /\ params' = attach_params
            /\ Goto(t, "attach_read")
            /\ op' = [op EXCEPT ![t] = "attach"]
            /\ arg' = [arg EXCEPT ![t] = <<>>]
            /\ UNCHANGED <<cached, nullable_pending_spec, weak_scene_surface, lsurf, lparent,
                           lhandler, lspec, ltransient, result>>
    /\ UNCHANGED <<surfaces, xwin, env_vars, calls, fatal>>

\* "Read all properties": every handler issues its read_property()
AttachRead(t) ==
    /\ At(t, "attach", "attach_read")
    /\ Made(t, [i \in DOMAIN HandlerAtoms |-> Call("read_property", HandlerAtoms[i], <<>>)])
    /\ Goto(t, "reply")
    /\ lhandler' = [lhandler EXCEPT ![t] = HandlerAtoms[1]]
    /\ UNCHANGED <<bridge_vars, shell_vars, xwin, env_vars, op, arg, lstate, lsurf, lobs,
                   lparent, lspec, ltransient, params, result, fatal>>

\* consume_pending_spec(lock)
consumed == nullable_pending_spec

\* faulty variant of AttachConsume: a property fetch waits for its reply with the
\* mutex held, so the locked section has to wait for the other thread's fetch
AttachConsumeAfterFetch(t) ==
    /\ At(t, "attach", "attach_consume")
    /\ \A u \in Threads \ {t} : pc[u] \notin {"reply", "transient_fallback", "transient_write"}
    /\ params' = IF IsSet(consumed) THEN update_from_spec(params, Value(consumed)) ELSE params
    /\ nullable_pending_spec' = Unset
    /\ Goto(t, "attach_create")
    /\ UNCHANGED <<cached, weak_scene_surface, weak_session, surface_observer, shell_vars,
                   xwin, env_vars, op, arg, locals, calls, result, fatal>>

\* the locked section after the replies: the pending specification goes into params
AttachConsume(t) ==
    /\ At(t, "attach", "attach_consume")
    /\ params' = IF IsSet(consumed) THEN update_from_spec(params, Value(consumed)) ELSE params
    /\ nullable_pending_spec' = Unset
    /\ Goto(t, "attach_create")
    /\ UNCHANGED <<cached, weak_scene_surface, weak_session, surface_observer, shell_vars,
                   xwin, env_vars, op, arg, locals, calls, result, fatal>>

\* shell->create_surface(session, params, observer) returns the new surface
AttachCreate(t) ==
    /\ At(t, "attach", "attach_create")
    /\ surfaces' = [surfaces EXCEPT ![lobs[t]] = created_surface(params, lobs[t])]
    /\ lsurf' = [lsurf EXCEPT ![t] = lobs[t]]
    /\ Made(t, <<Call("create_surface", "", params)>>)
    /\ Goto(t, "inform_lock")
    /\ UNCHANGED <<bridge_vars, attach_count, xwin, env_vars, op, arg, lstate, lobs, lparent,
                   lhandler, lspec, ltransient, params, result, fatal>>

\* faulty variant of AttachCreateFails: the reference is set before the call is made
AttachCreateFailsPublished(t) ==
    /\ At(t, "attach", "attach_create")
    /\ Made(t, <<Call("create_surface", "failed", params)>>)
    /\ weak_scene_surface' = lobs[t]
    /\ Finish(t, "fault")
    /\ params' = IF logging THEN params ELSE NoParams
    /\ UNCHANGED <<cached, nullable_pending_spec, weak_session, surface_observer, shell_vars,
                   xwin, env_vars, fatal>>

\* shell->create_surface(...) throws: attach_wl_surface ends there
AttachCreateFails(t) ==
    /\ At(t, "attach", "attach_create")
    /\ Made(t, <<Call("create_surface", "failed", params)>>)
    /\ Finish(t, "fault")
    /\ params' = IF logging THEN params ELSE NoParams
    /\ UNCHANGED <<bridge_vars, shell_vars, xwin, env_vars, fatal>>

\* configure_window(window, top_left + content_offset, content_size, nullopt, ABOVE)
AttachConfigure(t) ==
    /\ At(t, "attach", "attach_configure")
    /\ Made(t, <<Call("configure_window", "geometry",
                      [top_left |-> Some(Plus(surfaces[lsurf[t]].top_left, content_offset(lsurf[t]))),
                       size |-> Some(surfaces[lsurf[t]].size),
                       stack_mode |-> Some("ABOVE")])>>)
    /\ Goto(t, "attach_publish")
    /\ UNCHANGED <<bridge_vars, shell_vars, xwin, env_vars, op, arg, locals, params, result,
                   fatal>>

\* the last locked section: weak_scene_surface = surface
AttachPublish(t) ==
    /\ At(t, "attach", "attach_publish")
    /\ weak_scene_surface' = lsurf[t]
    /\ Finish(t, "ok")
    /\ params' = IF logging THEN params ELSE NoParams
    /\ UNCHANGED <<cached, nullable_pending_spec, weak_session, surface_observer, shell_vars,
                   xwin, env_vars, calls, fatal>>

(***************************************************************************)
(* property_notify(property)                                               *)
(***************************************************************************)
\* the atoms property notify events of the model carry: the handled ones and one more
NotifiedAtoms == Handled \cup {"WM_HINTS"}

PropertyNotifyBegin(t, property) ==
    /\ Begin(t)
    /\ IF property \in Handled
       THEN /\ Made(t, <<Call("read_property", property, <<>>)>>)
            /\ Goto(t, "reply")
            /\ op' = [op EXCEPT ![t] = "property_notify"]
            /\ arg' = [arg EXCEPT ![t] = <<property>>]
            /\ lhandler' = [lhandler EXCEPT ![t] = property]
            /\ UNCHANGED <<lstate, lsurf, lobs, lparent, lspec, ltransient, result>>
       ELSE /\ FinishAt(t, "property_notify", <<property>>, "ok")
            /\ UNCHANGED calls
    /\ UNCHANGED <<bridge_vars, shell_vars, xwin, env_vars, params, fatal>>

\* faulty variant of PropertyNotifyConsume: the pending specification is read and left
PropertyNotifyPeeks(t) ==
    /\ At(t, "property_notify", "notify_consume")
    /\ lsurf' = [lsurf EXCEPT ![t] = Lock(weak_scene_surface)]
    /\ lspec' = [lspec EXCEPT ![t] = consumed]
    /\ Goto(t, "notify_modify")
    /\ UNCHANGED <<bridge_vars, shell_vars, xwin, env_vars, op, arg, lstate, lobs, lparent, lhandler,
                   ltransient, params, calls, result, fatal>>

\* the locked section: take the scene surface and the pending specification
PropertyNotifyConsume(t) ==
    /\ At(t, "property_notify", "notify_consume")
    /\ lsurf' = [lsurf EXCEPT ![t] = Lock(weak_scene_surface)]
    /\ lspec' = [lspec EXCEPT ![t] = consumed]
    /\ nullable_pending_spec' = Unset
    /\ Goto(t, "notify_modify")
    /\ UNCHANGED <<cached, weak_scene_surface, weak_session, surface_observer, shell_vars,
                   xwin, env_vars, op, arg, lstate, lobs, lparent, lhandler, ltransient,
                   params, calls, result, fatal>>

\* the fields of spec that differ from the scene surface's current values
filtered(spec, surface) ==
    [spec EXCEPT
        !.application_id =
            IF IsSet(@) /\ Value(@) = surface.application_id THEN Unset ELSE @,
        !.name = IF IsSet(@) /\ Value(@) = surface.name THEN Unset ELSE @,
        !.parent = IF IsSet(@) /\ Value(@) = surface.parent THEN Unset ELSE @]

\* if (spec && scene_surface) { drop what is unchanged; modify_surface if not empty }
PropertyNotifyModify(t) ==
    /\ At(t, "property_notify", "notify_modify")
    /\ IF IsSet(lspec[t]) /\ lsurf[t] # 0
            /\ ~is_empty(filtered(Value(lspec[t]), surfaces[lsurf[t]]))
       THEN LET mods == filtered(Value(lspec[t]), surfaces[lsurf[t]])
            IN /\ surfaces' = [surfaces EXCEPT ![lsurf[t]] = modified_surface(@, mods)]
               /\ Made(t, <<Call("modify_surface", "spec", mods)>>)
       ELSE UNCHANGED <<surfaces, calls>>
    /\ Finish(t, "ok")
    /\ UNCHANGED <<bridge_vars, attach_count, xwin, env_vars, params, fatal>>

(***************************************************************************)
(* configure_request(event) and configure_notify(event)                    *)
(***************************************************************************)
ValueMaskBits == {"X", "Y", "WIDTH", "HEIGHT"}

ConfigureRequestEvents ==
    [value_mask : SUBSET ValueMaskBits, x : Coords, y : Coords, width : Coords, height : Coords]

\* event->value_mask & XCB_CONFIG_WINDOW_... ? the event's value : the old one
requested_point(event, old) ==
    <<IF "X" \in event.value_mask THEN event.x ELSE old[1],
      IF "Y" \in event.value_mask THEN event.y ELSE old[2]>>

\* faulty variant of requested_size: the height is taken from the event whatever the mask says
requested_size_any_height(event, old) ==
    <<IF "WIDTH" \in event.value_mask THEN event.width ELSE old[1], event.height>>

requested_size(event, old) ==
    <<IF "WIDTH" \in event.value_mask THEN event.width ELSE old[1],
      IF "HEIGHT" \in event.value_mask THEN event.height ELSE old[2]>>

\* the locked section: scene_surface = weak_scene_surface.lock()
ConfigureRequestBegin(t, event) ==
    /\ Start(t, "configure_request", <<event>>)
    /\ lsurf' = [lsurf EXCEPT ![t] = Lock(weak_scene_surface)]
    /\ Goto(t, "configure_apply")
    /\ UNCHANGED <<bridge_vars, shell_vars, xwin, env_vars, lstate, lobs, lparent, lhandler,
                   lspec, ltransient, params, calls, result, fatal>>

\* faulty variant of configure_mods: only the dimension that changes is set
configure_mods_single(k, event) ==
    LET offset == content_offset(k)
        old_position == Plus(surfaces[k].top_left, offset)
        new_position == requested_point(event, old_position)
        old_size == surfaces[k].size
        new_size == requested_size(event, old_size)
        moved == IF old_position # new_position
                 THEN set_position(surfaces[k].parent, Minus(new_position, offset), EmptySpec)
                 ELSE EmptySpec
    IN [moved EXCEPT
          !.width = IF old_size[1] # new_size[1] THEN Some(new_size[1]) ELSE Unset,
          !.height = IF old_size[2] # new_size[2] THEN Some(new_size[2]) ELSE Unset]

\* the modifications configure_request asks of scene surface k
configure_mods(k, event) ==
    LET offset == content_offset(k)
        old_position == Plus(surfaces[k].top_left, offset)
        new_position == requested_point(event, old_position)
        old_size == surfaces[k].size
        new_size == requested_size(event, old_size)
        moved == IF old_position # new_position
                 THEN set_position(surfaces[k].parent, Minus(new_position, offset), EmptySpec)
                 ELSE EmptySpec
    IN IF old_size # new_size
       THEN [moved EXCEPT !.width = Some(new_size[1]), !.height = Some(new_size[2])]
       ELSE moved

\* with a scene surface: modify it; without: configure the X window and flush
ConfigureRequestApply(t) ==
    /\ At(t, "configure_request", "configure_apply")
    /\ LET event == arg[t][1]
           k == lsurf[t]
       IN IF k # 0
          THEN IF ~is_empty(configure_mods(k, event))
               THEN /\ surfaces' = [surfaces EXCEPT ![k] = modified_surface(@, configure_mods(k, event))]
                    /\ Made(t, <<Call("modify_surface", "spec", configure_mods(k, event))>>)
               ELSE UNCHANGED <<surfaces, calls>>
          ELSE /\ Made(t, <<Call("configure_window", "geometry",
                                 [top_left |-> Some(requested_point(event, cached.top_left)),
                                  size |-> Some(requested_size(event, cached.size)),
                                  stack_mode |-> Unset]),
                            Call("flush", "", <<>>)>>)
               /\ UNCHANGED surfaces
    /\ Finish(t, "ok")
    /\ UNCHANGED <<bridge_vars, attach_count, xwin, env_vars, params, fatal>>

\* faulty variant of ConfigureNotify: the override-redirect flag is not taken over
ConfigureNotifyGeometry(t, event) ==
    /\ Begin(t)
    /\ cached' = [cached EXCEPT
            !.top_left = <<event.x, event.y>>,
            !.size = <<event.width, event.height>>]
    /\ FinishAt(t, "configure_notify", <<event>>, "ok")
    /\ UNCHANGED <<nullable_pending_spec, weak_scene_surface, weak_session, surface_observer,
                   shell_vars, xwin, env_vars, params, calls, fatal>>

\* faulty variant of ConfigureNotify: the geometry is echoed to the X window
ConfigureNotifyEchoes(t, event) ==
    /\ Begin(t)
    /\ cached' = [cached EXCEPT
            !.override_redirect = event.override_redirect,
            !.top_left = <<event.x, event.y>>,
            !.size = <<event.width, event.height>>]
    /\ FinishAt(t, "configure_notify", <<event>>, "ok")
    /\ Made(t, <<Call("configure_window", "geometry",
                      [top_left |-> Some(<<event.x, event.y>>),
                       size |-> Some(<<event.width, event.height>>),
                       stack_mode |-> Unset])>>)
    /\ UNCHANGED <<nullable_pending_spec, weak_scene_surface, weak_session, surface_observer,
                   shell_vars, xwin, env_vars, params, fatal>>

\* one locked section: the cached geometry and override-redirect flag are the event's
ConfigureNotify(t, event) ==
    /\ Begin(t)
    /\ cached' = [cached EXCEPT
            !.override_redirect = event.override_redirect,
            !.top_left = <<event.x, event.y>>,
            !.size = <<event.width, event.height>>]
    /\ FinishAt(t, "configure_notify", <<event>>, "ok")
    /\ UNCHANGED <<nullable_pending_spec, weak_scene_surface, weak_session, surface_observer,
                   shell_vars, xwin, env_vars, params, calls, fatal>>

(***************************************************************************)
(* take_focus() and scene_surface_close_requested()                        *)
(***************************************************************************)
\* faulty variant of supports_take_focus: the delete-window atom is looked up
supports_take_focus_delete == "WM_DELETE_WINDOW" \in cached.supported_wm_protocols

\* cached.supported_wm_protocols.find(connection->wm_take_focus) != end()
supports_take_focus == "WM_TAKE_FOCUS" \in cached.supported_wm_protocols

\* the locked section: return on an override-redirect window, else look the protocol up
TakeFocusBegin(t) ==
    /\ Begin(t)
    /\ IF cached.override_redirect
       THEN FinishAt(t, "take_focus", <<>>, "ok")
       ELSE /\ Goto(t, IF supports_take_focus THEN "take_focus_message" ELSE "take_focus_input")
            /\ op' = [op EXCEPT ![t] = "take_focus"]
            /\ arg' = [arg EXCEPT ![t] = <<>>]
            /\ UNCHANGED <<locals, result>>
    /\ UNCHANGED <<bridge_vars, shell_vars, xwin, env_vars, params, calls, fatal>>

\* if (supports_take_focus) send_client_message<WM_PROTOCOLS>(window, ..., {wm_take_focus, ...})
TakeFocusMessage(t) ==
    /\ At(t, "take_focus", "take_focus_message")
    /\ Made(t, <<Call("send_client_message", "WM_PROTOCOLS", "WM_TAKE_FOCUS")>>)
    /\ Goto(t, "take_focus_input")
    /\ UNCHANGED <<bridge_vars, shell_vars, xwin, env_vars, op, arg, locals, params, result, fatal>>

\* xcb_set_input_focus(connection, XCB_INPUT_FOCUS_POINTER_ROOT, window, ...); flush
TakeFocusInput(t) ==
    /\ At(t, "take_focus", "take_focus_input")
    /\ Made(t, <<Call("set_input_focus", "", OwnWindow), Call("flush", "", <<>>)>>)
    /\ Finish(t, "ok")
    /\ UNCHANGED <<bridge_vars, shell_vars, xwin, env_vars, params, fatal>>

\* faulty variant of delete_window: the take-focus atom is looked up
delete_window_focus == "WM_TAKE_FOCUS" \in cached.supported_wm_protocols

\* cached.supported_wm_protocols.find(connection->wm_delete_window) != end()
delete_window == "WM_DELETE_WINDOW" \in cached.supported_wm_protocols

\* the locked section of scene_surface_close_requested, called by the surface observer
CloseRequestedBegin(t) ==
    /\ ObserverAttached
    /\ Start(t, "close_requested", <<>>)
    /\ Goto(t, IF delete_window THEN "close_requested_delete" ELSE "close_requested_kill")
    /\ UNCHANGED <<bridge_vars, shell_vars, xwin, env_vars, locals, params, calls, result, fatal>>

\* send_client_message<WM_PROTOCOLS>(window, ..., {wm_delete_window, ...}) or
\* xcb_kill_client(connection, window); then flush
CloseRequestedSend(t) ==
    /\ ~fatal
    /\ op[t] = "close_requested"
    /\ pc[t] \in {"close_requested_delete", "close_requested_kill"}
    /\ IF pc[t] = "close_requested_delete"
       THEN Made(t, <<Call("send_client_message", "WM_PROTOCOLS", "WM_DELETE_WINDOW"),
                      Call("flush", "", <<>>)>>)
       ELSE Made(t, <<Call("kill_client", "", OwnWindow), Call("flush", "", <<>>)>>)
    /\ Finish(t, "ok")
    /\ UNCHANGED <<bridge_vars, shell_vars, xwin, env_vars, params, fatal>>

(***************************************************************************)
(* The rest of the X server: the client's properties, the window manager's *)
(* focus and the other windows' bridges                                    *)
(***************************************************************************)
\* the X client sets or deletes WM_TRANSIENT_FOR
ClientSetsTransientFor(value) ==
    /\ ~fatal
    /\ xprops.transient_for # value
    /\ xprops' = [xprops EXCEPT !.transient_for = value]
    /\ UNCHANGED <<bridge_vars, shell_vars, xwin, xwm, logging, mutex, thread_vars, fatal>>

\* the X client sets WM_CLASS
ClientSetsClass(value) ==
    /\ ~fatal
    /\ xprops.wm_class # value
    /\ xprops' = [xprops EXCEPT !.wm_class = value]
    /\ UNCHANGED <<bridge_vars, shell_vars, xwin, xwm, logging, mutex, thread_vars, fatal>>

\* XWaylandWM: the focused window changes
FocusChanges(w) ==
    /\ ~fatal
    /\ xwm.focused # w
    /\ xwm' = [xwm EXCEPT !.focused = w]
    /\ UNCHANGED <<bridge_vars, shell_vars, xwin, xprops, logging, mutex, thread_vars, fatal>>

\* another window is created (it gets a bridge), attached (its bridge gets a scene
\* surface), closed or destroyed
OtherWindowChanges(w) ==
    /\ ~fatal
    /\ \/ /\ w \notin xwm.bridges
          /\ xwm' = [xwm EXCEPT !.bridges = @ \cup {w}]
       \/ /\ w \in xwm.bridges \ xwm.with_surface
          /\ xwm' = [xwm EXCEPT !.with_surface = @ \cup {w}]
       \/ /\ w \in xwm.with_surface
          /\ xwm' = [xwm EXCEPT !.with_surface = @ \ {w}]
       \/ /\ w \in xwm.bridges \ xwm.with_surface
          /\ xwm' = [xwm EXCEPT !.bridges = @ \ {w}]
    /\ UNCHANGED <<bridge_vars, shell_vars, xwin, xprops, logging, mutex, thread_vars, fatal>>

(***************************************************************************)
(* wl_surface_destroyed()                                                   *)
(***************************************************************************)
\* XWaylandSurfaceObserver calls wl_surface_destroyed(), which calls close()
WlSurfaceDestroyed(t) ==
    /\ \E k \in SurfaceIds : use_count(k) > 0
    /\ CloseBegin(t)

(***************************************************************************)
(* is_transient_for(transient_for), lock by lock: the steps between which  *)
(* a thread holds a bridge's mutex.  arg[t][1] is the window whose bridge  *)
(* the call is made on (the handlers of every window's bridge run on these *)
(* threads), arg[t][2] the transient_for it is called with; ltransient[t]  *)
(* is the window the get_scene_surface_from call in progress looks up.     *)
(***************************************************************************)
IsTransientForBegin(t, bridge, transient_for) ==
    /\ bridge \in xwm.bridges
    /\ Start(t, "is_transient_for", <<bridge, transient_for>>)
    /\ ltransient' = [ltransient EXCEPT ![t] = transient_for]
    /\ Goto(t, IF transient_for # XCB_WINDOW_NONE THEN "first_lookup" ELSE "own_lock")
    /\ UNCHANGED <<bridge_vars, shell_vars, xwin, env_vars, lstate, lsurf, lobs, lparent,
                   lhandler, lspec, params, calls, result, fatal>>

\* after a lookup that found the surface `found`: the focused window's lookup, if
\* this was the first and found nothing and a window is focused; else the own lock
NextLookup(t, found) ==
    IF pc[t] \in {"first_lookup", "first_locked"} /\ found = 0 /\ xwm.focused # XCB_WINDOW_NONE
    THEN /\ Goto(t, "focused_lookup")
         /\ ltransient' = [ltransient EXCEPT ![t] = xwm.focused]
    ELSE /\ Goto(t, "own_lock")
         /\ UNCHANGED ltransient

\* get_scene_surface_from: if (get_wm_surface(xcb_window)) lock_guard lock{its mutex};
\* else return nullptr
LookupLock(t) ==
    /\ ~fatal
    /\ op[t] = "is_transient_for"
    /\ pc[t] \in {"first_lookup", "focused_lookup"}
    /\ IF ltransient[t] \in xwm.bridges
       THEN /\ mutex[ltransient[t]] = "free"
            /\ mutex' = [mutex EXCEPT ![ltransient[t]] = t]
            /\ Goto(t, IF pc[t] = "first_lookup" THEN "first_locked" ELSE "focused_locked")
            /\ UNCHANGED <<lparent, ltransient>>
       ELSE /\ lparent' = [lparent EXCEPT ![t] = 0]
            /\ NextLookup(t, 0)
            /\ UNCHANGED mutex
    /\ UNCHANGED <<bridge_vars, shell_vars, xwin, xprops, xwm, logging, op, arg, lstate, lsurf,
                   lobs, lhandler, lspec, params, calls, result, fatal>>

\* faulty variant of LookupUnlock: the lock on the looked-up bridge is kept
LookupKeepsLock(t) ==
    /\ ~fatal
    /\ op[t] = "is_transient_for"
    /\ pc[t] \in {"first_locked", "focused_locked"}
    /\ lparent' = [lparent EXCEPT ![t] = get_scene_surface_from(ltransient[t])]
    /\ NextLookup(t, get_scene_surface_from(ltransient[t]))
    /\ UNCHANGED <<bridge_vars, shell_vars, xwin, env_vars, op, arg, lstate, lsurf,
                   lobs, lhandler, lspec, params, calls, result, fatal>>

\* return xwayland_surface.value()->weak_scene_surface.lock(): the lock_guard's scope ends
LookupUnlock(t) ==
    /\ ~fatal
    /\ op[t] = "is_transient_for"
    /\ pc[t] \in {"first_locked", "focused_locked"}
    /\ lparent' = [lparent EXCEPT ![t] = get_scene_surface_from(ltransient[t])]
    /\ mutex' = [mutex EXCEPT ![ltransient[t]] = "free"]
    /\ NextLookup(t, get_scene_surface_from(ltransient[t]))
    /\ UNCHANGED <<bridge_vars, shell_vars, xwin, xprops, xwm, logging, op, arg, lstate, lsurf,
                   lobs, lhandler, lspec, params, calls, result, fatal>>

\* std::lock_guard<std::mutex> lock{this->mutex}
OwnLock(t) ==
    /\ ~fatal
    /\ op[t] = "is_transient_for"
    /\ pc[t] = "own_lock"
    /\ mutex[arg[t][1]] = "free"
    /\ mutex' = [mutex EXCEPT ![arg[t][1]] = t]
    /\ Goto(t, "own_locked")
    /\ UNCHANGED <<bridge_vars, shell_vars, xwin, xprops, xwm, logging, op, arg, locals,
                   params, calls, result, fatal>>

\* pending_spec(lock).parent = parent_scene_surface; set_position(...); the scope ends.
\* Of the other windows' bridges the pending specification is not modelled
OwnUnlock(t) ==
    /\ ~fatal
    /\ op[t] = "is_transient_for"
    /\ pc[t] = "own_locked"
    /\ nullable_pending_spec' =
            IF arg[t][1] = OwnWindow
            THEN Some(set_position(lparent[t], cached.top_left,
                                   [pending_spec EXCEPT !.parent = Some(lparent[t])]))
            ELSE nullable_pending_spec
    /\ mutex' = [mutex EXCEPT ![arg[t][1]] = "free"]
    /\ Finish(t, "ok")
    /\ UNCHANGED <<cached, weak_scene_surface, weak_session, surface_observer, shell_vars,
                   xwin, xprops, xwm, logging, params, calls, fatal>>

\* no other thread is inside an operation
Alone(t) == \A u \in Threads \ {t} : pc[u] = "idle"
AllIdle == \A t \in Threads : pc[t] = "idle"

(***************************************************************************)
(* Specifications                                                          *)
(***************************************************************************)
\* nothing of the past is recorded
Unrecorded == UNCHANGED history

(***************************************************************************)
(* Spec: the two threads, interleaved.  The connection thread maps,        *)
(* closes and delivers the client messages; the compositor thread          *)
(* attaches, reports scene surface states and destroyed wl_surfaces.       *)
(***************************************************************************)
\* the native states the scene surface reports in this specification
ReportedStates == {"restored", "minimized"}

\* the client messages of this specification
SentProperties == {<<"_NET_WM_STATE_HIDDEN", NoAtom>>}

Next ==
    \/ MapBegin("x11") /\ Unrecorded
    \/ CloseBegin("x11") /\ Unrecorded
    \/ \E properties \in SentProperties : NetWmStateBegin("x11", TOGGLE, properties) /\ Unrecorded
    \/ \E requested \in {WITHDRAWN, ICONIC} : WmChangeStateBegin("x11", requested) /\ Unrecorded
    \/ AttachBegin("wl") /\ Unrecorded
    \/ WlSurfaceDestroyed("wl") /\ Unrecorded
    \/ \E new_state \in ReportedStates : SceneSurfaceStateSetBegin("wl", new_state) /\ Unrecorded
    \/ \E t \in Threads : InformLock(t) /\ Unrecorded
    \/ \E t \in Threads : InformWmState(t) /\ Unrecorded
    \/ \E t \in Threads : InformNetWmState(t) /\ Unrecorded
    \/ \E t \in Threads : RequestLock(t) /\ Unrecorded
    \/ \E t \in Threads : RequestModify(t) /\ Unrecorded
    \/ \E t \in Threads : MapDesktop(t) /\ Unrecorded
    \/ \E t \in Threads : MapWindow(t) /\ Unrecorded
    \/ \E t \in Threads : CloseDesktop(t) /\ Unrecorded
    \/ \E t \in Threads : CloseUnmap(t) /\ Unrecorded
    \/ \E t \in Threads : CloseRemoveObserver(t) /\ Unrecorded
    \/ \E t \in Threads : CloseDestroy(t) /\ Unrecorded
    \/ \E t \in Threads : CloseObserver(t) /\ Unrecorded
    \/ \E t \in Threads : HandlerReply(t) /\ Unrecorded
    \/ \E t \in Threads : TransientLookup(t) /\ Unrecorded
    \/ \E t \in Threads : TransientWrite(t) /\ Unrecorded
    \/ \E t \in Threads : AttachRead(t) /\ Unrecorded
    \/ \E t \in Threads : AttachConsume(t) /\ Unrecorded
    \/ \E t \in Threads : AttachCreate(t) /\ Unrecorded
    \/ \E t \in Threads : AttachCreateFails(t) /\ Unrecorded
    \/ \E t \in Threads : AttachConfigure(t) /\ Unrecorded
    \/ \E t \in Threads : AttachPublish(t) /\ Unrecorded
    \/ \E t \in Threads : SceneSurfaceStateSetLower(t) /\ Unrecorded

Spec == Init /\ [][Next]_vars

(***************************************************************************)
(* SpecSeq: the operations one at a time, each run to its end before the   *)
(* next is called, with the calls every operation makes kept until it      *)
(* returns.                                                                *)
(***************************************************************************)
InitSeq ==
    /\ Constructed(CornerEvent)
    /\ FreshServer
    /\ ThreadsIdle
    /\ logging = TRUE
    /\ history = <<>>

\* the native states the scene surface reports in this specification
SeqReportedStates == {"restored", "minimized", "fullscreen", "hidden"}

NextSeq ==
    \/ Alone("x11") /\ MapBegin("x11") /\ Unrecorded
    \/ Alone("x11") /\ CloseBegin("x11") /\ Unrecorded
    \/ \E action \in Actions, properties \in NetWmStateProperties : Alone("x11") /\ NetWmStateBegin("x11", action, properties) /\ Unrecorded
    \/ \E requested \in RequestedStates : Alone("x11") /\ WmChangeStateBegin("x11", requested) /\ Unrecorded
    \/ Alone("wl") /\ AttachBegin("wl") /\ Unrecorded
    \/ Alone("wl") /\ WlSurfaceDestroyed("wl") /\ Unrecorded
    \/ \E new_state \in SeqReportedStates : Alone("wl") /\ SceneSurfaceStateSetBegin("wl", new_state) /\ Unrecorded
    \/ \E t \in Threads : Alone(t) /\ InformLock(t) /\ Unrecorded
    \/ \E t \in Threads : Alone(t) /\ InformWmState(t) /\ Unrecorded
    \/ \E t \in Threads : Alone(t) /\ InformNetWmState(t) /\ Unrecorded
    \/ \E t \in Threads : Alone(t) /\ RequestLock(t) /\ Unrecorded
    \/ \E t \in Threads : Alone(t) /\ RequestModify(t) /\ Unrecorded
    \/ \E t \in Threads : Alone(t) /\ MapDesktop(t) /\ Unrecorded
    \/ \E t \in Threads : Alone(t) /\ MapWindow(t) /\ Unrecorded
    \/ \E t \in Threads : Alone(t) /\ CloseDesktop(t) /\ Unrecorded
    \/ \E t \in Threads : Alone(t) /\ CloseUnmap(t) /\ Unrecorded
    \/ \E t \in Threads : Alone(t) /\ CloseRemoveObserver(t) /\ Unrecorded
    \/ \E t \in Threads : Alone(t) /\ CloseDestroy(t) /\ Unrecorded
    \/ \E t \in Threads : Alone(t) /\ CloseObserver(t) /\ Unrecorded
    \/ \E t \in Threads : Alone(t) /\ HandlerReply(t) /\ Unrecorded
    \/ \E t \in Threads : Alone(t) /\ TransientLookup(t) /\ Unrecorded
    \/ \E t \in Threads : Alone(t) /\ TransientWrite(t) /\ Unrecorded
    \/ \E t \in Threads : Alone(t) /\ AttachRead(t) /\ Unrecorded
    \/ \E t \in Threads : Alone(t) /\ AttachConsume(t) /\ Unrecorded
    \/ \E t \in Threads : Alone(t) /\ AttachCreate(t) /\ Unrecorded
    \/ \E t \in Threads : Alone(t) /\ AttachCreateFails(t) /\ Unrecorded
    \/ \E t \in Threads : Alone(t) /\ AttachConfigure(t) /\ Unrecorded
    \/ \E t \in Threads : Alone(t) /\ AttachPublish(t) /\ Unrecorded
    \/ \E t \in Threads : Alone(t) /\ SceneSurfaceStateSetLower(t) /\ Unrecorded
    \/ \E t \in Threads : Alone(t) /\ Return(t) /\ Unrecorded

SpecSeq == InitSeq /\ [][NextSeq]_vars

\* thread t leaves inform_client_of_window_state's locked section
InformDecides(t) == pc[t] = "inform_lock" /\ pc'[t] # "inform_lock"

\* C2: an inform_client_of_window_state whose value equals the cached state writes
\* no property, does not flush and leaves the cached state unchanged, it returns to
\* its caller at once; any other leaves its value as the cached state, so that the
\* same value pushed again is written once only
InformIdempotent ==
    [][\A t \in Threads :
          InformDecides(t) =>
              IF lstate[t] = cached.state
              THEN /\ cached' = cached
                   /\ xwin' = xwin
                   /\ calls' = calls
                   /\ pc'[t] = AfterInform(op[t])
              ELSE /\ cached'.state = lstate[t]
                   /\ pc'[t] = "inform_wm_state"]_vars

\* a WM_CHANGE_STATE message asking for the state the window has: the push was
\* skipped, nothing was written
InformSkipped ==
    /\ op["x11"] = "wm_change_state"
    /\ pc["x11"] = "request_lock"
    /\ lstate["x11"] = cached.state
    /\ calls["x11"] = <<>>

\* C3: when close() returns, the surface observer has no owner left, no scene
\* surface has it among its observers, and the bridge holds no observer, no session
\* and no scene surface
CloseReleasesObserver ==
    \A t \in Threads :
        (op[t] = "close" /\ pc[t] = "done") =>
            /\ ~fatal
            /\ surface_observer = 0
            /\ ~weak_session
            /\ weak_scene_surface = 0
            /\ \A k \in SurfaceIds :
                  /\ use_count(k) = 0
                  /\ \A j \in SurfaceIds : k \notin surfaces[j].observers

\* close() has returned after removing the observer and destroying the scene surface
ClosedAttached ==
    /\ op["x11"] = "close"
    /\ pc["x11"] = "done"
    /\ CountCalls("x11", "remove_observer") = 1
    /\ CountCalls("x11", "destroy_surface") = 1

\* the attach calls that succeeded: each made one scene surface
attached == Cardinality({k \in SurfaceIds : surfaces[k].status # "absent"})

\* C4, as claimed: at most one attach succeeds on a bridge, whatever runs in between
AttachesOnce == attached <= 1

\* thread t calls attach_wl_surface
AttachCalled(t) == pc[t] = "idle" /\ op'[t] = "attach"

\* C4: attach faults exactly when the bridge holds an observer, a session or a live
\* scene surface; after close() has dropped them, attach is admitted again
AttachFaultsWhileAttached ==
    [][\A t \in Threads :
          AttachCalled(t) =>
              ((pc'[t] = "done" /\ result'[t] = "fault")
                  <=> (surface_observer # 0 \/ weak_session \/ Lock(weak_scene_surface) # 0))]_vars

\* a second attach has succeeded, after a close()
AttachedAgain ==
    /\ op["wl"] = "attach"
    /\ pc["wl"] = "done"
    /\ result["wl"] = "ok"
    /\ attached = 2

\* thread t receives a WM_CHANGE_STATE message that asks for neither NORMAL nor ICONIC
InvalidChangeState(t) ==
    /\ pc[t] = "idle"
    /\ op'[t] = "wm_change_state"
    /\ arg'[t][1] \notin {NORMAL, ICONIC}

\* C5: a WM_CHANGE_STATE message that asks for a state other than NORMAL and ICONIC
\* faults; the cached state, the window's properties and the scene surfaces are as
\* before and no call was made
InvalidChangeStateFaults ==
    [][\A t \in Threads :
          InvalidChangeState(t) =>
              /\ pc'[t] = "done"
              /\ result'[t] = "fault"
              /\ calls'[t] = <<>>
              /\ UNCHANGED <<bridge_vars, shell_vars, xwin>>]_vars

\* a WM_CHANGE_STATE message asking for WITHDRAWN has faulted on a mapped window
WithdrawnRefused ==
    /\ op["x11"] = "wm_change_state"
    /\ arg["x11"] = <<WITHDRAWN>>
    /\ result["x11"] = "fault"
    /\ xwin.mapped

\* the operations that clear the withdrawn flag of the state they push
Clearing == {"map", "attach", "scene_surface_state_set"}

\* the two client-message handlers
ClientMessages == {"net_wm_state", "wm_change_state"}

\* thread t enters a client-message handler and reads the cached state
MessageRead(t) == pc[t] = "idle" /\ op'[t] \in ClientMessages /\ pc'[t] = "inform_lock"

\* C11, as claimed: when map, attach, a _NET_WM_STATE or WM_CHANGE_STATE message or
\* scene_surface_state_set has completed without fault, the cached state is not
\* withdrawn
TransitionsClearWithdrawn ==
    \A t \in Threads :
        (/\ pc[t] = "done"
         /\ result[t] = "ok"
         /\ op[t] \in Clearing \cup ClientMessages) => ~cached.state.withdrawn

\* C11: map, attach and scene_surface_state_set leave the cached state not withdrawn
\* when their push is decided; a client-message handler pushes the state it read
\* with the withdrawn flag as it read it, and leaves that flag as the cached one
PushesClearWithdrawn ==
    [][\A t \in Threads :
          /\ (InformDecides(t) /\ op[t] \in Clearing) => ~cached'.state.withdrawn
          /\ MessageRead(t) => lstate'[t].withdrawn = cached.state.withdrawn
          /\ (InformDecides(t) /\ op[t] \in ClientMessages) =>
                cached'.state.withdrawn = lstate[t].withdrawn]_vars

\* a _NET_WM_STATE message has made a withdrawn window fullscreen, and it is still
\* withdrawn
WithdrawnMessaged ==
    /\ op["x11"] = "net_wm_state"
    /\ pc["x11"] = "done"
    /\ result["x11"] = "ok"
    /\ cached.state.withdrawn
    /\ cached.state.fullscreen

\* the shell's create_surface call made by thread t's operation has returned a surface
Created(t) ==
    \E i \in DOMAIN calls[t] : calls[t][i].call = "create_surface" /\ calls[t][i].prop = ""

\* the shell's create_surface call made by thread t fails in this step
CreationFails(t) == pc[t] = "attach_create" /\ pc'[t] = "done"

\* C13: the scene surface reference is empty at construction; a step that sets it is
\* a step of an attach whose create_surface call has returned, and sets it to a
\* surface the shell holds; the step in which create_surface fails leaves it empty
PublishedAfterCreation ==
    /\ weak_scene_surface = 0
    /\ [][/\ weak_scene_surface' \notin {0, weak_scene_surface} =>
                /\ weak_scene_surface = 0
                /\ \E t \in Threads : op[t] = "attach" /\ Created(t)
                /\ surfaces[weak_scene_surface'].status = "alive"
          /\ \A t \in Threads :
                CreationFails(t) => (weak_scene_surface = 0 /\ weak_scene_surface' = 0)]_vars

\* attach has ended in the shell's failure to create the surface, with no scene
\* surface reference set
CreationFailedUnpublished ==
    /\ op["wl"] = "attach"
    /\ pc["wl"] = "done"
    /\ result["wl"] = "fault"
    /\ CountCalls("wl", "create_surface") = 1
    /\ weak_scene_surface = 0

\* thread t enters close(): its locked section
CloseEntered(t) == pc[t] = "idle" /\ op'[t] = "close"

\* the calls of close() on the connection, with the push written or skipped
CloseWrites ==
    {<<Call("delete_property", "_NET_WM_DESKTOP", <<>>)>> \o push
        \o <<Call("unmap_window", "", <<>>), Call("flush", "", <<>>)>> :
     push \in {<<>>,
               <<Call("set_property", "WM_STATE", WITHDRAWN),
                 Call("delete_property", "_NET_WM_STATE", <<>>),
                 Call("flush", "", <<>>)>>}}

\* the calls of close() on scene surface k with observer o, none if there is no surface
Teardown(o, k) ==
    IF k # 0 THEN <<Call("remove_observer", "", o), Call("destroy_surface", "", k)>> ELSE <<>>

\* C14: close() takes the scene surface, session and observer references and clears
\* them in one step; by the time it has asked the shell to destroy the surface it
\* has, in this order, deleted the desktop property, pushed the withdrawn state,
\* unmapped the window and flushed, and then, if there was a scene surface, removed
\* the observer from it and asked for its destruction; it still holds the observer
\* then, and lets go of it in its last step only
ClosesInOrder ==
    [][\A t \in Threads :
          /\ CloseEntered(t) =>
                /\ lsurf'[t] = Lock(weak_scene_surface)
                /\ lobs'[t] = surface_observer
                /\ weak_scene_surface' = 0
                /\ ~weak_session'
                /\ surface_observer' = 0
          /\ (op[t] = "close" /\ pc[t] = "close_destroy") =>
                /\ \E writes \in CloseWrites : calls'[t] = writes \o Teardown(lobs[t], lsurf[t])
                /\ lobs'[t] = lobs[t]
                /\ pc'[t] = "close_observer"
          /\ (op[t] = "close" /\ pc[t] # "idle" /\ lobs'[t] # lobs[t]) =>
                (pc[t] = "close_observer" /\ pc'[t] = "done")]_vars

\* close() has written the withdrawn state, unmapped the window, removed the
\* observer from the scene surface and asked for its destruction, and holds the observer
ClosedInOrder ==
    /\ op["x11"] = "close"
    /\ pc["x11"] = "close_observer"
    /\ lobs["x11"] = 1
    /\ Len(calls["x11"]) = 8
    /\ calls["x11"][7] = Call("remove_observer", "", 1)
    /\ calls["x11"][8] = Call("destroy_surface", "", 1)

\* the calls of a map() that leaves s as the cached state, in their order: the
\* desktop property, the push of s (skipped if s was the cached state), the request
\* of the native state of s (skipped if the scene surface has it, or there is none),
\* the mapping of the window and the flush
MapCalls(s) ==
    {<<Call("set_property", "_NET_WM_DESKTOP", workspace)>> \o push \o request
        \o <<Call("map_window", "", <<>>), Call("flush", "", <<>>)>> :
     push \in {<<>>,
               <<Call("set_property", "WM_STATE", wm_state_of(s)),
                 Call("set_property", "_NET_WM_STATE", net_wm_states_of(s)),
                 Call("flush", "", <<>>)>>},
     request \in {<<>>, <<Call("modify_surface", "state", mir_window_state(s))>>}}

\* C15: when map() returns, the cached state is not withdrawn, the calls it made are
\* the desktop property, the push of the cached state, the request of its native
\* state, the mapping of the window and the flush, in this order, the window is
\* mapped and a live scene surface has the native state of the cached state
MapsInOrder ==
    \A t \in Threads :
        (op[t] = "map" /\ pc[t] = "done") =>
            /\ ~cached.state.withdrawn
            /\ calls[t] \in MapCalls(cached.state)
            /\ xwin.mapped
            /\ xwin.wm_state = Some(wm_state_of(cached.state))
            /\ Lock(weak_scene_surface) # 0 =>
                  surfaces[weak_scene_surface].state = mir_window_state(cached.state)

\* map() has pushed the minimized state to the client of a withdrawn window before
\* mapping the window
MappedInOrder ==
    /\ op["x11"] = "map"
    /\ pc["x11"] = "done"
    /\ Len(calls["x11"]) = 6
    /\ calls["x11"][2] = Call("set_property", "WM_STATE", ICONIC)
    /\ calls["x11"][5] = Call("map_window", "", <<>>)

\* the calls of thread t's operation that restack the window
Restackings(t) ==
    {i \in DOMAIN calls[t] : calls[t][i].call = "configure_window" /\ calls[t][i].prop = "stack_mode"}

\* C16: when scene_surface_state_set returns, the window has been lowered, once, if
\* the reported native state is one that sets the minimized flag (hidden, minimized);
\* for any other native state it has not been restacked
LowersWhenMinimized ==
    \A t \in Threads :
        (op[t] = "scene_surface_state_set" /\ pc[t] = "done") =>
            IF updated_from(InitialWindowState, arg[t][1]).minimized
            THEN /\ Cardinality(Restackings(t)) = 1
                 /\ \A i \in Restackings(t) : calls[t][i].val.stack_mode = Some("BELOW")
            ELSE Restackings(t) = {}

(***************************************************************************)
(* SpecMsg: the _NET_WM_STATE client messages, one operation at a time,    *)
(* with the current message, the TOGGLE message right before it, if any,   *)
(* and the cached state each found remembered in history.                  *)
(***************************************************************************)
\* what is remembered of an operation that was no _NET_WM_STATE message
NoMessage == [arg |-> <<>>, before |-> InitialWindowState]

\* a _NET_WM_STATE message arrives: the one before it, if it was a TOGGLE, moves up
MessageRecorded ==
    history' = [previous |-> IF history.current.arg # <<>> /\ history.current.arg[1] = TOGGLE
                             THEN history.current ELSE NoMessage,
                current |-> [arg |-> arg'["x11"], before |-> cached.state]]

\* another operation starts
OtherRecorded == history' = [previous |-> NoMessage, current |-> NoMessage]

NextMsg ==
    \/ \E action \in Actions, properties \in NetWmStateProperties : Alone("x11") /\ NetWmStateBegin("x11", action, properties) /\ MessageRecorded
    \/ Alone("x11") /\ MapBegin("x11") /\ OtherRecorded
    \/ Alone("x11") /\ CloseBegin("x11") /\ OtherRecorded
    \/ Alone("wl") /\ AttachBegin("wl") /\ OtherRecorded
    \/ \E t \in Threads : Alone(t) /\ InformLock(t) /\ Unrecorded
    \/ \E t \in Threads : Alone(t) /\ InformWmState(t) /\ Unrecorded
    \/ \E t \in Threads : Alone(t) /\ InformNetWmState(t) /\ Unrecorded
    \/ \E t \in Threads : Alone(t) /\ RequestLock(t) /\ Unrecorded
    \/ \E t \in Threads : Alone(t) /\ RequestModify(t) /\ Unrecorded
    \/ \E t \in Threads : Alone(t) /\ MapDesktop(t) /\ Unrecorded
    \/ \E t \in Threads : Alone(t) /\ MapWindow(t) /\ Unrecorded
    \/ \E t \in Threads : Alone(t) /\ CloseDesktop(t) /\ Unrecorded
    \/ \E t \in Threads : Alone(t) /\ CloseUnmap(t) /\ Unrecorded
    \/ \E t \in Threads : Alone(t) /\ CloseRemoveObserver(t) /\ Unrecorded
    \/ \E t \in Threads : Alone(t) /\ CloseDestroy(t) /\ Unrecorded
    \/ \E t \in Threads : Alone(t) /\ CloseObserver(t) /\ Unrecorded
    \/ \E t \in Threads : Alone(t) /\ HandlerReply(t) /\ Unrecorded
    \/ \E t \in Threads : Alone(t) /\ TransientLookup(t) /\ Unrecorded
    \/ \E t \in Threads : Alone(t) /\ TransientWrite(t) /\ Unrecorded
    \/ \E t \in Threads : Alone(t) /\ AttachRead(t) /\ Unrecorded
    \/ \E t \in Threads : Alone(t) /\ AttachConsume(t) /\ Unrecorded
    \/ \E t \in Threads : Alone(t) /\ AttachCreate(t) /\ Unrecorded
    \/ \E t \in Threads : Alone(t) /\ AttachCreateFails(t) /\ Unrecorded
    \/ \E t \in Threads : Alone(t) /\ AttachConfigure(t) /\ Unrecorded
    \/ \E t \in Threads : Alone(t) /\ AttachPublish(t) /\ Unrecorded
    \/ \E t \in Threads : Alone(t) /\ Return(t) /\ Unrecorded

InitMsg ==
    /\ Constructed(CornerEvent)
    /\ FreshServer
    /\ ThreadsIdle
    /\ logging = TRUE
    /\ history = [previous |-> NoMessage, current |-> NoMessage]

SpecMsg == InitMsg /\ [][NextMsg]_vars

\* the flag of the Window-State a recognized _NET_WM_STATE atom stands for
flag_of(property) ==
    CASE property = "_NET_WM_STATE_HIDDEN" -> "minimized"
      [] property = "_NET_WM_STATE_MAXIMIZED_HORZ" -> "maximized"
      [] property = "_NET_WM_STATE_FULLSCREEN" -> "fullscreen"

Recognized == {"_NET_WM_STATE_HIDDEN", "_NET_WM_STATE_MAXIMIZED_HORZ", "_NET_WM_STATE_FULLSCREEN"}

\* the _NET_WM_STATE message in progress on the connection thread has been carried out
MessageDone == op["x11"] = "net_wm_state" /\ pc["x11"] = "done"

\* C6: a _NET_WM_STATE message with action ADD and one recognized property leaves
\* the cached state as it found it but for that property's flag, which is set; two
\* TOGGLE messages in a row for the same property leave the cached state as the
\* first found it
ClientMessageSetsFlag ==
    MessageDone =>
        /\ (arg["x11"][1] = ADD /\ arg["x11"][2] \in Recognized /\ arg["x11"][3] = NoAtom) =>
              cached.state = [history.current.before EXCEPT ![flag_of(arg["x11"][2])] = TRUE]
        /\ (arg["x11"][1] = TOGGLE /\ history.previous.arg = arg["x11"]) =>
              cached.state = history.previous.before

\* a second TOGGLE of fullscreen in a row has been carried out on a window that was
\* maximized and not fullscreen
ToggledTwice ==
    /\ MessageDone
    /\ arg["x11"] = <<TOGGLE, "_NET_WM_STATE_FULLSCREEN", NoAtom>>
    /\ history.previous.arg = arg["x11"]
    /\ history.previous.before.maximized
    /\ ~history.previous.before.fullscreen
    /\ history.current.before.fullscreen

\* the flags a _NET_WM_STATE atom list reports
reported(list) ==
    LET atoms == {list[i] : i \in DOMAIN list}
    IN {flag \in {"minimized", "maximized", "fullscreen"} :
          \/ flag = "minimized" /\ "_NET_WM_STATE_HIDDEN" \in atoms
          \/ flag = "maximized" /\ atoms \cap {"_NET_WM_STATE_MAXIMIZED_HORZ",
                                                "_NET_WM_STATE_MAXIMIZED_VERT"} # {}
          \/ flag = "fullscreen" /\ "_NET_WM_STATE_FULLSCREEN" \in atoms}

\* C32, as claimed: the _NET_WM_STATE list of the window reports at most one of
\* hidden, maximized and fullscreen
ReportsAtMostOne ==
    IsSet(xwin.net_wm_state) => Cardinality(reported(Value(xwin.net_wm_state))) <= 1

\* thread t's inform_client_of_window_state writes or deletes _NET_WM_STATE
NetWmStateWritten(t) == pc[t] = "inform_net_wm_state" /\ pc'[t] # pc[t]

\* C32: the _NET_WM_STATE list inform_client_of_window_state writes for a state
\* that is not withdrawn reports exactly the flags set in it, each on its own:
\* hidden if minimized, maximized if maximized, fullscreen if fullscreen, and so at
\* most one of them only where at most one flag is set; for a withdrawn state the
\* property is deleted
ReportsEveryFlag ==
    [][\A t \in Threads :
          NetWmStateWritten(t) =>
              IF lstate[t].withdrawn
              THEN xwin'.net_wm_state = Unset
              ELSE /\ IsSet(xwin'.net_wm_state)
                   /\ reported(Value(xwin'.net_wm_state)) =
                         {flag \in {"minimized", "maximized", "fullscreen"} : lstate[t][flag]}]_vars

\* the window's _NET_WM_STATE reports hidden, maximized and fullscreen at once
ReportedAllThree ==
    /\ IsSet(xwin.net_wm_state)
    /\ reported(Value(xwin.net_wm_state)) = {"minimized", "maximized", "fullscreen"}
    /\ cached.state = [withdrawn |-> FALSE, minimized |-> TRUE, maximized |-> TRUE,
                       fullscreen |-> TRUE]

(***************************************************************************)
(* SpecWS: the Window-State conversions, applied to every Window-State     *)
(* and every native state.  history holds the value s, the native state n, *)
(* the result out and how far the conversions have gone.                   *)
(***************************************************************************)
\* the bridge is not touched
Frozen == UNCHANGED <<bridge_vars, shell_vars, xwin, env_vars, thread_vars, fatal>>

\* n = s.mir_window_state()
ToNativeState ==
    /\ history.stage = "given"
    /\ history' = [history EXCEPT !.n = mir_window_state(history.s), !.stage = "native"]
    /\ Frozen

\* out = s.updated_from(n)
UpdatedFrom ==
    /\ history.stage \in {"given", "native"}
    /\ history' = [history EXCEPT
            !.out = updated_from(history.s, history.n),
            !.stage = IF @ = "native" THEN "round_trip" ELSE "updated"]
    /\ Frozen

NextWS == ToNativeState \/ UpdatedFrom

\* every Window-State and every native state, on a bridge nothing happens to
InitWS ==
    /\ Constructed(CornerEvent)
    /\ FreshServer
    /\ ThreadsIdle
    /\ logging = FALSE
    /\ history \in [s : WindowStates, n : MirWindowStates, stage : {"given"},
                    out : {InitialWindowState}]

SpecWS == InitWS /\ [][NextWS]_vars

\* C1: for every Window-State s, s.updated_from(s.mir_window_state()) has the
\* minimized, maximized and fullscreen flags of s and is not withdrawn
RoundTripLaw ==
    history.stage = "round_trip" =>
        /\ history.out.minimized = history.s.minimized
        /\ history.out.maximized = history.s.maximized
        /\ history.out.fullscreen = history.s.fullscreen
        /\ ~history.out.withdrawn

\* the round trip of a withdrawn, maximized and fullscreen state has been made
RoundTripMade ==
    /\ history.stage = "round_trip"
    /\ history.s = [withdrawn |-> TRUE, minimized |-> FALSE, maximized |-> TRUE,
                    fullscreen |-> TRUE]
    /\ history.n = "fullscreen"

\* C20: for every Window-State s, s.mir_window_state() is minimized exactly if s is
\* minimized; fullscreen exactly if s is fullscreen and not minimized; maximized
\* exactly if s is maximized and neither; restored exactly if s is none of the
\* three; and it is also the native state of s with the withdrawn flag inverted
NativeStatePrecedence ==
    history.stage = "native" =>
        LET s == history.s
            n == history.n
        IN /\ n \in {"minimized", "fullscreen", "maximized", "restored"}
           /\ (n = "minimized") <=> s.minimized
           /\ (n = "fullscreen") <=> (s.fullscreen /\ ~s.minimized)
           /\ (n = "maximized") <=> (s.maximized /\ ~s.fullscreen /\ ~s.minimized)
           /\ (n = "restored") <=> (~s.maximized /\ ~s.fullscreen /\ ~s.minimized)
           /\ n = mir_window_state([s EXCEPT !.withdrawn = ~@])

\* the native state of a withdrawn, maximized and fullscreen state has been computed
NativeStateMade ==
    /\ history.stage = "native"
    /\ history.s = [withdrawn |-> TRUE, minimized |-> FALSE, maximized |-> TRUE,
                    fullscreen |-> TRUE]
    /\ history.n = "fullscreen"

\* C21: for every Window-State s and every native state n, s.updated_from(n) is a
\* Window-State that is not withdrawn, and its flags follow the table: hidden and
\* minimized set minimized and leave the other two; fullscreen clears minimized,
\* sets fullscreen and leaves maximized; the three maximized states clear minimized
\* and fullscreen and set maximized; restored, unknown and attached clear all three
UpdatedFromTable ==
    history.stage = "updated" =>
        LET s == history.s
            n == history.n
            out == history.out
            flags(min, max, full) ==
                /\ out.minimized = min
                /\ out.maximized = max
                /\ out.fullscreen = full
        IN /\ out \in WindowStates
           /\ ~out.withdrawn
           /\ n \in {"hidden", "minimized"} => flags(TRUE, s.maximized, s.fullscreen)
           /\ n = "fullscreen" => flags(FALSE, s.maximized, TRUE)
           /\ n \in {"maximized", "vertmaximized", "horizmaximized"} =>
                    flags(FALSE, TRUE, FALSE)
           /\ n \in {"restored", "unknown", "attached"} => flags(FALSE, FALSE, FALSE)

\* a withdrawn, minimized and maximized state has been updated from fullscreen
UpdatedFromFullscreen ==
    /\ history.stage = "updated"
    /\ history.s = [withdrawn |-> TRUE, minimized |-> TRUE, maximized |-> TRUE,
                    fullscreen |-> FALSE]
    /\ history.n = "fullscreen"
    /\ history.out = [withdrawn |-> FALSE, minimized |-> FALSE, maximized |-> TRUE,
                      fullscreen |-> TRUE]

(***************************************************************************)
(* SpecGeom: the geometry of a window created by any create event, one     *)
(* operation at a time.  history holds the create event and whether a      *)
(* configure notify event has arrived since.                               *)
(***************************************************************************)
\* window 2, which the window is transient for, has a bridge; it may have a scene
\* surface
InitGeom ==
    /\ \E event \in CreateEvents :
          /\ Constructed(event)
          /\ history = [event |-> event, notified |-> FALSE]
    /\ surfaces = [k \in SurfaceIds |-> NoSurface]
    /\ attach_count = 0
    /\ xwin = [mapped |-> FALSE, wm_state |-> Unset, net_wm_state |-> Unset, desktop |-> Unset]
    /\ xprops = [wm_class |-> Unset, wm_name |-> Unset, net_wm_name |-> Unset,
                 transient_for |-> Some(2), wm_protocols |-> Unset]
    /\ \E others \in {{}, {2}} :
          xwm = [bridges |-> {OwnWindow, 2}, with_surface |-> others, focused |-> XCB_WINDOW_NONE]
    /\ ThreadsIdle
    /\ logging = TRUE

\* the configure request events of this specification: for X alone or for the whole
\* geometry, with any X and any height, and for the height alone
GeomRequests ==
    {event \in ConfigureRequestEvents :
        /\ \/ event.value_mask \in {{"X"}, ValueMaskBits}
           \/ event.value_mask = {"HEIGHT"} /\ event.x = 0
        /\ event.y = 0
        /\ event.width = 0}

\* the configure notify events of this specification
GeomNotifies ==
    {[x |-> 1, y |-> 0, width |-> 0, height |-> 1, override_redirect |-> TRUE],
     [x |-> 0, y |-> 1, width |-> 1, height |-> 1, override_redirect |-> FALSE]}

Notified == history' = [history EXCEPT !.notified = TRUE]

NextGeom ==
    \/ \E event \in GeomRequests : Alone("x11") /\ ConfigureRequestBegin("x11", event) /\ Unrecorded
    \/ \E event \in GeomNotifies : Alone("x11") /\ ConfigureNotify("x11", event) /\ Notified
    \/ Alone("wl") /\ AttachBegin("wl") /\ Unrecorded
    \/ \E t \in Threads : Alone(t) /\ InformLock(t) /\ Unrecorded
    \/ \E t \in Threads : Alone(t) /\ InformWmState(t) /\ Unrecorded
    \/ \E t \in Threads : Alone(t) /\ InformNetWmState(t) /\ Unrecorded
    \/ \E t \in Threads : Alone(t) /\ HandlerReply(t) /\ Unrecorded
    \/ \E t \in Threads : Alone(t) /\ TransientLookup(t) /\ Unrecorded
    \/ \E t \in Threads : Alone(t) /\ TransientFallback(t) /\ Unrecorded
    \/ \E t \in Threads : Alone(t) /\ TransientWrite(t) /\ Unrecorded
    \/ \E t \in Threads : Alone(t) /\ AttachRead(t) /\ Unrecorded
    \/ \E t \in Threads : Alone(t) /\ AttachConsume(t) /\ Unrecorded
    \/ \E t \in Threads : Alone(t) /\ AttachCreate(t) /\ Unrecorded
    \/ \E t \in Threads : Alone(t) /\ AttachCreateFails(t) /\ Unrecorded
    \/ \E t \in Threads : Alone(t) /\ AttachConfigure(t) /\ Unrecorded
    \/ \E t \in Threads : Alone(t) /\ AttachPublish(t) /\ Unrecorded
    \/ \E t \in Threads : Alone(t) /\ ConfigureRequestApply(t) /\ Unrecorded
    \/ \E t \in Threads : Alone(t) /\ Return(t) /\ Unrecorded

SpecGeom == InitGeom /\ [][NextGeom]_vars

\* the creation requests thread t has passed to the shell in its operation
CreationRequests(t) ==
    {calls[t][i].val : i \in {j \in DOMAIN calls[t] : calls[t][j].call = "create_surface"}}

\* C7: while no configure notify event has arrived, a creation request that attach
\* passes to the shell with no parent resolved has the create event's position and
\* size, and is server-side decorated exactly if the event is not override-redirect
CreatedAsAnnounced ==
    ~history.notified =>
        \A t \in Threads : \A request \in CreationRequests(t) :
            (~IsSet(request.parent) \/ Value(request.parent) = 0) =>
                /\ request.top_left = <<history.event.x, history.event.y>>
                /\ request.size = <<history.event.width, history.event.height>>
                /\ request.server_side_decorated = ~history.event.override_redirect

\* attach has created the scene surface of a window announced at (1, 0), 1 wide and
\* 1 high, not override-redirect, with no parent
CreatedUndisturbed ==
    /\ ~history.notified
    /\ history.event = [x |-> 1, y |-> 0, width |-> 1, height |-> 1, override_redirect |-> FALSE]
    /\ op["wl"] = "attach"
    /\ pc["wl"] = "done"
    /\ \E request \in CreationRequests("wl") :
          /\ request.parent = Some(0)
          /\ request.server_side_decorated

\* thread t is in, or enters, a configure_request with only the X bit set that finds
\* no scene surface
XOnlyRequest(t) ==
    /\ op'[t] = "configure_request"
    /\ arg'[t][1].value_mask = {"X"}
    /\ Lock(weak_scene_surface) = 0

\* C8, as claimed: a configure_request with only the X bit set that finds no scene
\* surface leaves its X as the cached X and issues one configure call
ConfigureRequestCachesX ==
    \A t \in Threads :
        (/\ op[t] = "configure_request"
         /\ pc[t] = "done"
         /\ arg[t][1].value_mask = {"X"}
         /\ Lock(weak_scene_surface) = 0) =>
            /\ cached.top_left[1] = arg[t][1].x
            /\ CountCalls(t, "configure_window") = 1

\* C8: a configure_request with only the X bit set that finds no scene surface
\* changes nothing of the cached geometry; it issues one configure call, for the
\* event's X with the cached Y, width and height, and flushes
ConfigureRequestAsksServer ==
    [][\A t \in Threads :
          XOnlyRequest(t) =>
              /\ cached' = cached
              /\ pc'[t] = "done" =>
                    calls'[t] = <<Call("configure_window", "geometry",
                                       [top_left |-> Some(<<arg[t][1].x, cached.top_left[2]>>),
                                        size |-> Some(cached.size),
                                        stack_mode |-> Unset]),
                                  Call("flush", "", <<>>)>>]_vars

\* such a request, for another X and with another height than the cached ones, has
\* been carried out
XOnlyRequested ==
    \E t \in Threads :
        /\ op[t] = "configure_request"
        /\ pc[t] = "done"
        /\ arg[t][1].value_mask = {"X"}
        /\ Lock(weak_scene_surface) = 0
        /\ arg[t][1].x # cached.top_left[1]
        /\ arg[t][1].height # cached.size[2]

\* thread t's configure_request, having found scene surface lsurf[t], acts on it
ConfigureRequestActs(t) ==
    /\ op[t] = "configure_request"
    /\ pc[t] = "configure_apply"
    /\ pc'[t] # pc[t]
    /\ lsurf[t] # 0

\* C30: a configure_request that has found a scene surface leaves the window as it
\* is and makes no configure call; it makes one modify_surface call if a coordinate
\* or a dimension named in the value mask differs from the one the surface's content
\* has, and no call if none does; the call sets a position exactly if a coordinate
\* differs, and sets both width and height, one to the value asked for and the
\* other to the one it has, exactly if a dimension differs
ConfigureRequestModifies ==
    [][\A t \in Threads :
          ConfigureRequestActs(t) =>
              LET event == arg[t][1]
                  surface == surfaces[lsurf[t]]
                  position == Plus(surface.top_left, content_offset(lsurf[t]))
                  asked(bit, value, old) == IF bit \in event.value_mask THEN value ELSE old
                  width == asked("WIDTH", event.width, surface.size[1])
                  height == asked("HEIGHT", event.height, surface.size[2])
                  moved == \/ asked("X", event.x, position[1]) # position[1]
                           \/ asked("Y", event.y, position[2]) # position[2]
                  resized == <<width, height>> # surface.size
              IN /\ xwin' = xwin
                 /\ IF moved \/ resized
                    THEN /\ Len(calls'[t]) = 1
                         /\ calls'[t][1].call = "modify_surface"
                         /\ LET mods == calls'[t][1].val
                            IN /\ moved <=> (IsSet(mods.top_left) \/ IsSet(mods.aux_rect))
                               /\ mods.width = IF resized THEN Some(width) ELSE Unset
                               /\ mods.height = IF resized THEN Some(height) ELSE Unset
                    ELSE /\ calls'[t] = <<>>
                         /\ surfaces' = surfaces]_vars

\* a configure_request for the height alone has set width and height of a scene
\* surface one wide
HeightRequestSetsBoth ==
    /\ op["x11"] = "configure_request"
    /\ pc["x11"] = "done"
    /\ arg["x11"][1].value_mask = {"HEIGHT"}
    /\ Len(calls["x11"]) = 1
    /\ calls["x11"][1].call = "modify_surface"
    /\ calls["x11"][1].val.width = Some(1)
    /\ IsSet(calls["x11"][1].val.height)
    /\ ~IsSet(calls["x11"][1].val.top_left)

\* thread t handles a configure notify event
ConfigureNotified(t) == pc[t] = "idle" /\ op'[t] = "configure_notify"

\* C31: configure_notify makes the cached position, size and override-redirect flag
\* those of the event and changes nothing else: the cached window state and
\* protocols, the pending specification, the scene surface, session and observer
\* references, the scene surfaces and the window stay as they are, and no call is
\* made on the connection or the shell
ConfigureNotifyCachesOnly ==
    [][\A t \in Threads :
          ConfigureNotified(t) =>
              LET event == arg'[t][1]
              IN /\ cached' = [cached EXCEPT
                        !.override_redirect = event.override_redirect,
                        !.top_left = <<event.x, event.y>>,
                        !.size = <<event.width, event.height>>]
                 /\ UNCHANGED <<nullable_pending_spec, weak_scene_surface, weak_session,
                                surface_observer, shell_vars, xwin>>
                 /\ calls'[t] = <<>>
                 /\ pc'[t] = "done"]_vars

\* a configure notify event has moved a window that has a live scene surface and
\* made it override-redirect
NotifiedWhileAttached ==
    /\ op["x11"] = "configure_notify"
    /\ pc["x11"] = "done"
    /\ Lock(weak_scene_surface) # 0
    /\ surface_observer # 0
    /\ cached.override_redirect
    /\ cached.top_left = <<1, 0>>
    /\ cached.top_left # <<history.event.x, history.event.y>>

(***************************************************************************)
(* SpecProps: the window's properties, the focus and the other windows     *)
(* change between the operations that read them, which run one at a time.  *)
(***************************************************************************)
InitProps ==
    /\ Constructed(CornerEvent)
    /\ TypicalClient
    /\ ThreadsIdle
    /\ logging = TRUE
    /\ history = <<>>

\* the values the client gives WM_TRANSIENT_FOR: none, no window, another window
TransientForValues == {Unset, Some(XCB_WINDOW_NONE)} \cup {Some(w) : w \in OtherWindows}

NextProps ==
    \/ \E property \in NotifiedAtoms : Alone("x11") /\ PropertyNotifyBegin("x11", property) /\ Unrecorded
    \/ Alone("x11") /\ CloseBegin("x11") /\ Unrecorded
    \/ Alone("wl") /\ AttachBegin("wl") /\ Unrecorded
    \/ \E value \in TransientForValues : AllIdle /\ ClientSetsTransientFor(value) /\ Unrecorded
    \/ \E w \in OtherWindows \cup {XCB_WINDOW_NONE} : AllIdle /\ FocusChanges(w) /\ Unrecorded
    \/ \E w \in OtherWindows : AllIdle /\ OtherWindowChanges(w) /\ Unrecorded
    \/ \E t \in Threads : Alone(t) /\ InformLock(t) /\ Unrecorded
    \/ \E t \in Threads : Alone(t) /\ InformWmState(t) /\ Unrecorded
    \/ \E t \in Threads : Alone(t) /\ InformNetWmState(t) /\ Unrecorded
    \/ \E t \in Threads : Alone(t) /\ CloseDesktop(t) /\ Unrecorded
    \/ \E t \in Threads : Alone(t) /\ CloseUnmap(t) /\ Unrecorded
    \/ \E t \in Threads : Alone(t) /\ CloseRemoveObserver(t) /\ Unrecorded
    \/ \E t \in Threads : Alone(t) /\ CloseDestroy(t) /\ Unrecorded
    \/ \E t \in Threads : Alone(t) /\ CloseObserver(t) /\ Unrecorded
    \/ \E t \in Threads : Alone(t) /\ HandlerReply(t) /\ Unrecorded
    \/ \E t \in Threads : Alone(t) /\ TransientLookup(t) /\ Unrecorded
    \/ \E t \in Threads : Alone(t) /\ TransientFallback(t) /\ Unrecorded
    \/ \E t \in Threads : Alone(t) /\ TransientWrite(t) /\ Unrecorded
    \/ \E t \in Threads : Alone(t) /\ AttachRead(t) /\ Unrecorded
    \/ \E t \in Threads : Alone(t) /\ AttachConsume(t) /\ Unrecorded
    \/ \E t \in Threads : Alone(t) /\ AttachCreate(t) /\ Unrecorded
    \/ \E t \in Threads : Alone(t) /\ AttachCreateFails(t) /\ Unrecorded
    \/ \E t \in Threads : Alone(t) /\ AttachConfigure(t) /\ Unrecorded
    \/ \E t \in Threads : Alone(t) /\ AttachPublish(t) /\ Unrecorded
    \/ \E t \in Threads : Alone(t) /\ PropertyNotifyConsume(t) /\ Unrecorded
    \/ \E t \in Threads : Alone(t) /\ PropertyNotifyModify(t) /\ Unrecorded
    \/ \E t \in Threads : Alone(t) /\ Return(t) /\ Unrecorded

SpecProps == InitProps /\ [][NextProps]_vars

\* the live scene surface of window w's bridge; 0 if w has no bridge, or its bridge
\* no live scene surface
surface_of(w) ==
    IF w = OwnWindow THEN Lock(weak_scene_surface)
    ELSE IF w \in xwm.bridges /\ w \in xwm.with_surface THEN OtherSurfaceId(w)
    ELSE 0

\* the transient-for reference the resolution in progress was called with
reference == IF IsSet(xprops.transient_for) THEN Value(xprops.transient_for) ELSE XCB_WINDOW_NONE

\* thread t writes the resolved parent into the pending specification
ParentWritten(t) == pc[t] = "transient_write" /\ pc'[t] # "transient_write"

\* C9: the parent written into the pending specification is none for a null
\* reference; else the scene surface of the window referred to, if it has a bridge
\* with a live one; else that of the focused window, if there is one and it has a
\* bridge with a live one; else none
ParentFallsBackToFocused ==
    [][\A t \in Threads :
          ParentWritten(t) =>
              Value(nullable_pending_spec').parent =
                  Some(IF reference = XCB_WINDOW_NONE THEN 0
                       ELSE IF surface_of(reference) # 0 THEN surface_of(reference)
                       ELSE IF xwm.focused # XCB_WINDOW_NONE THEN surface_of(xwm.focused)
                       ELSE 0)]_vars

\* the window is transient for window 2, which has a bridge and no scene surface;
\* window 3 is focused and has one, which has been written as the parent
FellBackToFocused ==
    /\ xprops.transient_for = Some(2)
    /\ 2 \in xwm.bridges \ xwm.with_surface
    /\ xwm.focused = 3
    /\ 3 \in xwm.with_surface
    /\ op["x11"] = "property_notify"
    /\ pc["x11"] = "notify_consume"
    /\ nullable_pending_spec # Unset
    /\ Value(nullable_pending_spec).parent = Some(OtherSurfaceId(3))

\* thread t receives a property notify event
NotifyReceivedFor(t) == pc[t] = "idle" /\ op'[t] = "property_notify"

\* what property_notify asks of the shell for the pending specification spec and
\* the scene surface k it has taken: the fields of spec that differ from the
\* surface's, if there is a specification, a surface and such a field
Applied(spec, k) ==
    IF IsSet(spec) /\ k # 0 /\ ~is_empty(filtered(Value(spec), surfaces[k]))
    THEN <<Call("modify_surface", "spec", filtered(Value(spec), surfaces[k]))>>
    ELSE <<>>

\* C17: a property_notify for an atom without handler returns at once: no call is
\* made, the bridge, the scene surfaces and the window are as before; for a handled
\* atom it issues the read, takes the reply, then takes the scene surface and the
\* pending specification in one step, leaving none, and calls modify_surface
\* exactly if there is a live scene surface and the specification, once the fields
\* the surface already has are dropped, is not empty; when it returns there is no
\* pending specification
NotifyAppliesPending ==
    /\ [](\A t \in Threads :
            (op[t] = "property_notify" /\ pc[t] = "done") => nullable_pending_spec = Unset)
    /\ [][\A t \in Threads :
            /\ (NotifyReceivedFor(t) /\ arg'[t][1] \notin Handled) =>
                  /\ pc'[t] = "done"
                  /\ calls'[t] = <<>>
                  /\ UNCHANGED <<bridge_vars, shell_vars, xwin>>
            /\ (NotifyReceivedFor(t) /\ arg'[t][1] \in Handled) =>
                  /\ pc'[t] = "reply"
                  /\ calls'[t] = <<Call("read_property", arg'[t][1], <<>>)>>
            /\ (op[t] = "property_notify" /\ pc[t] = "notify_consume") =>
                  /\ lsurf'[t] = Lock(weak_scene_surface)
                  /\ lspec'[t] = nullable_pending_spec
                  /\ nullable_pending_spec' = Unset
            /\ (op[t] = "property_notify" /\ pc[t] = "notify_modify") =>
                  /\ pc'[t] = "done"
                  /\ calls'[t] = calls[t] \o Applied(lspec[t], lsurf[t])]_vars

\* a property_notify for WM_TRANSIENT_FOR has given the scene surface a parent
NotifiedParent ==
    /\ op["x11"] = "property_notify"
    /\ pc["x11"] = "done"
    /\ arg["x11"] = <<"WM_TRANSIENT_FOR">>
    /\ CountCalls("x11", "modify_surface") = 1
    /\ Lock(weak_scene_surface) # 0
    /\ surfaces[weak_scene_surface].parent = OtherSurfaceId(2)

\* the application id, title and parent of spec, where set, are those of surface
SameAsSurface(spec, surface) ==
    /\ IsSet(spec.application_id) => Value(spec.application_id) = surface.application_id
    /\ IsSet(spec.name) => Value(spec.name) = surface.name
    /\ IsSet(spec.parent) => Value(spec.parent) = surface.parent

\* C28: when the specification property_notify has consumed names no application
\* id, title or parent other than the live scene surface's, property_notify makes
\* no modify_surface call and the scene surface stays as it is
UnchangedNotFiltered ==
    [][\A t \in Threads :
          (/\ op[t] = "property_notify" /\ pc[t] = "notify_modify"
           /\ lsurf[t] # 0 /\ IsSet(lspec[t])
           /\ SameAsSurface(Value(lspec[t]), surfaces[lsurf[t]])) =>
              /\ calls'[t] = calls[t]
              /\ surfaces' = surfaces]_vars

(***************************************************************************)
(* The window's map state under Spec                                       *)
(***************************************************************************)
\* C10: whenever no operation is in progress and the cached state is withdrawn, the
\* window is unmapped
WithdrawnIsUnmapped == (AllIdle /\ cached.state.withdrawn) => ~xwin.mapped

(***************************************************************************)
(* SpecClose: the teardown, interleaved.  The connection thread closes     *)
(* the window; the compositor thread attaches and destroys wl_surfaces.    *)
(***************************************************************************)
NextClose ==
    \/ CloseBegin("x11") /\ Unrecorded
    \/ AttachBegin("wl") /\ Unrecorded
    \/ WlSurfaceDestroyed("wl") /\ Unrecorded
    \/ \E t \in Threads : InformLock(t) /\ Unrecorded
    \/ \E t \in Threads : InformWmState(t) /\ Unrecorded
    \/ \E t \in Threads : InformNetWmState(t) /\ Unrecorded
    \/ \E t \in Threads : CloseDesktop(t) /\ Unrecorded
    \/ \E t \in Threads : CloseUnmap(t) /\ Unrecorded
    \/ \E t \in Threads : CloseRemoveObserver(t) /\ Unrecorded
    \/ \E t \in Threads : CloseDestroy(t) /\ Unrecorded
    \/ \E t \in Threads : CloseObserver(t) /\ Unrecorded
    \/ \E t \in Threads : HandlerReply(t) /\ Unrecorded
    \/ \E t \in Threads : TransientLookup(t) /\ Unrecorded
    \/ \E t \in Threads : TransientWrite(t) /\ Unrecorded
    \/ \E t \in Threads : AttachRead(t) /\ Unrecorded
    \/ \E t \in Threads : AttachConsume(t) /\ Unrecorded
    \/ \E t \in Threads : AttachCreate(t) /\ Unrecorded
    \/ \E t \in Threads : AttachCreateFails(t) /\ Unrecorded
    \/ \E t \in Threads : AttachConfigure(t) /\ Unrecorded
    \/ \E t \in Threads : AttachPublish(t) /\ Unrecorded

SpecClose == Init /\ [][NextClose]_vars

\* thread t's close() passes its destroy_surface step holding a scene surface
DestroyStep(t) == pc[t] = "close_destroy" /\ pc'[t] # "close_destroy" /\ lsurf[t] # 0

\* C22: whenever a close() asks the shell to destroy a scene surface, that surface
\* has not been destroyed before, and no other close() in progress holds it: each
\* scene surface is destroyed at most once, however the close() calls of the two
\* threads interleave
DestroysOnce ==
    /\ [][\A t \in Threads :
            DestroyStep(t) => surfaces[lsurf[t]].status = "alive"]_vars
    /\ [](\A t, u \in Threads :
            (t # u /\ op[t] = "close" /\ op[u] = "close" /\ lsurf[t] # 0) =>
                lsurf[u] # lsurf[t])

\* two close() calls overlap: one took the scene surface and has destroyed it, the
\* other is at its destroy step with nothing to destroy
ClosesOverlapped ==
    \E t, u \in Threads :
        /\ op[t] = "close" /\ pc[t] = "close_observer"
        /\ lobs[t] # 0 /\ surfaces[lobs[t]].status = "destroyed"
        /\ op[u] = "close" /\ pc[u] = "close_destroy" /\ lsurf[u] = 0

\* C33: in every reachable state, a live scene surface reference means the bridge
\* also holds its observer and its session: attach_wl_surface never publishes the
\* scene surface after a close() has cleared the observer
SurfaceHasObserver ==
    Lock(weak_scene_surface) # 0 => (surface_observer # 0 /\ weak_session)

\* C34: close() never reaches its fatal error "surface observer should have been
\* deleted", however it interleaves with an attach_wl_surface in progress
ObserverDeleted == ~fatal

(***************************************************************************)
(* The state pushes of the two threads under Spec                          *)
(***************************************************************************)
\* the state thread t's operation derives from the cached state s: what its locked
\* section and the lines before its inform_client_of_window_state make of s
derived(t, s) ==
    CASE op[t] = "map" -> [s EXCEPT !.withdrawn = FALSE]
      [] op[t] = "attach" -> [s EXCEPT !.withdrawn = FALSE]
      [] op[t] = "close" -> [s EXCEPT !.withdrawn = TRUE]
      [] op[t] = "net_wm_state" ->
            apply_property(apply_property(s, arg[t][1], arg[t][2]), arg[t][1], arg[t][3])
      [] op[t] = "wm_change_state" ->
            [s EXCEPT !.minimized = Value(requested_minimized(arg[t][1]))]
      [] op[t] = "scene_surface_state_set" -> updated_from(s, arg[t][1])

\* thread t's inform_client_of_window_state stores its value as the cached state
InformStores(t) == InformDecides(t) /\ cached'.state # cached.state

\* C23: the state an operation stores as the cached state is the one it derives
\* from the cached state at the moment of the store: no other operation has changed
\* the cached state since the operation read it
StoresDerivedFromCurrent ==
    [][\A t \in Threads :
          InformStores(t) => lstate[t] = derived(t, cached.state)]_vars

\* C24: once every operation has finished, the WM_STATE and _NET_WM_STATE last
\* written to the window are those of the cached state: the property writes of
\* overlapping pushes arrive in the order of their cached-state updates
PropertiesEncodeCachedState ==
    (AllIdle /\ IsSet(xwin.wm_state)) =>
        /\ xwin.wm_state = Some(wm_state_of(cached.state))
        /\ xwin.net_wm_state =
              IF cached.state.withdrawn THEN Unset
              ELSE Some(net_wm_states_of(cached.state))

(***************************************************************************)
(* SpecOps: every operation of the bridge, one at a time, on a window      *)
(* created override-redirect or not, whose client supports one of the two  *)
(* window manager protocols.  history holds the create event.              *)
(***************************************************************************)
\* the WM_PROTOCOLS the client has set on its window
ClientProtocols == {{"WM_TAKE_FOCUS"}, {"WM_DELETE_WINDOW"}}

InitOps ==
    /\ \E override_redirect \in BOOLEAN :
          /\ Constructed([CornerEvent EXCEPT !.override_redirect = override_redirect])
          /\ history = [event |-> [CornerEvent EXCEPT !.override_redirect = override_redirect]]
    /\ surfaces = [k \in SurfaceIds |-> NoSurface]
    /\ attach_count = 0
    /\ xwin = [mapped |-> FALSE, wm_state |-> Unset, net_wm_state |-> Unset, desktop |-> Unset]
    /\ \E protocols \in ClientProtocols :
          xprops = [wm_class |-> Unset, wm_name |-> Unset, net_wm_name |-> Unset,
                    transient_for |-> Unset, wm_protocols |-> Some(protocols)]
    /\ xwm = [bridges |-> {OwnWindow}, with_surface |-> {}, focused |-> XCB_WINDOW_NONE]
    /\ ThreadsIdle
    /\ logging = TRUE

\* the configure notify events of this specification: the geometry of the create
\* event, override-redirect or not
OpsNotifies == {[CornerEvent EXCEPT !.override_redirect = b] : b \in BOOLEAN}

\* the configure request event of this specification: for the X the window has
OpsRequest == [value_mask |-> {"X"}, x |-> 0, y |-> 0, width |-> 0, height |-> 0]

NextOps ==
    \/ Alone("x11") /\ MapBegin("x11") /\ Unrecorded
    \/ Alone("x11") /\ CloseBegin("x11") /\ Unrecorded
    \/ Alone("x11") /\ NetWmStateBegin("x11", REMOVE, <<"_NET_WM_STATE_HIDDEN", NoAtom>>) /\ Unrecorded
    \/ Alone("x11") /\ WmChangeStateBegin("x11", NORMAL) /\ Unrecorded
    \/ \E event \in OpsNotifies : Alone("x11") /\ ConfigureNotify("x11", event) /\ Unrecorded
    \/ Alone("x11") /\ ConfigureRequestBegin("x11", OpsRequest) /\ Unrecorded
    \/ \E property \in {"WM_PROTOCOLS", "WM_HINTS"} : Alone("x11") /\ PropertyNotifyBegin("x11", property) /\ Unrecorded
    \/ Alone("x11") /\ TakeFocusBegin("x11") /\ Unrecorded
    \/ Alone("wl") /\ AttachBegin("wl") /\ Unrecorded
    \/ Alone("wl") /\ WlSurfaceDestroyed("wl") /\ Unrecorded
    \/ Alone("wl") /\ SceneSurfaceStateSetBegin("wl", "minimized") /\ Unrecorded
    \/ Alone("wl") /\ CloseRequestedBegin("wl") /\ Unrecorded
    \/ \E t \in Threads : Alone(t) /\ InformLock(t) /\ Unrecorded
    \/ \E t \in Threads : Alone(t) /\ InformWmState(t) /\ Unrecorded
    \/ \E t \in Threads : Alone(t) /\ InformNetWmState(t) /\ Unrecorded
    \/ \E t \in Threads : Alone(t) /\ RequestLock(t) /\ Unrecorded
    \/ \E t \in Threads : Alone(t) /\ RequestModify(t) /\ Unrecorded
    \/ \E t \in Threads : Alone(t) /\ MapDesktop(t) /\ Unrecorded
    \/ \E t \in Threads : Alone(t) /\ MapWindow(t) /\ Unrecorded
    \/ \E t \in Threads : Alone(t) /\ CloseDesktop(t) /\ Unrecorded
    \/ \E t \in Threads : Alone(t) /\ CloseUnmap(t) /\ Unrecorded
    \/ \E t \in Threads : Alone(t) /\ CloseRemoveObserver(t) /\ Unrecorded
    \/ \E t \in Threads : Alone(t) /\ CloseDestroy(t) /\ Unrecorded
    \/ \E t \in Threads : Alone(t) /\ CloseObserver(t) /\ Unrecorded
    \/ \E t \in Threads : Alone(t) /\ HandlerReply(t) /\ Unrecorded
    \/ \E t \in Threads : Alone(t) /\ TransientLookup(t) /\ Unrecorded
    \/ \E t \in Threads : Alone(t) /\ TransientWrite(t) /\ Unrecorded
    \/ \E t \in Threads : Alone(t) /\ AttachRead(t) /\ Unrecorded
    \/ \E t \in Threads : Alone(t) /\ AttachConsume(t) /\ Unrecorded
    \/ \E t \in Threads : Alone(t) /\ AttachCreate(t) /\ Unrecorded
    \/ \E t \in Threads : Alone(t) /\ AttachCreateFails(t) /\ Unrecorded
    \/ \E t \in Threads : Alone(t) /\ AttachConfigure(t) /\ Unrecorded
    \/ \E t \in Threads : Alone(t) /\ AttachPublish(t) /\ Unrecorded
    \/ \E t \in Threads : Alone(t) /\ PropertyNotifyConsume(t) /\ Unrecorded
    \/ \E t \in Threads : Alone(t) /\ PropertyNotifyModify(t) /\ Unrecorded
    \/ \E t \in Threads : Alone(t) /\ ConfigureRequestApply(t) /\ Unrecorded
    \/ \E t \in Threads : Alone(t) /\ SceneSurfaceStateSetLower(t) /\ Unrecorded
    \/ \E t \in Threads : Alone(t) /\ TakeFocusMessage(t) /\ Unrecorded
    \/ \E t \in Threads : Alone(t) /\ TakeFocusInput(t) /\ Unrecorded
    \/ \E t \in Threads : Alone(t) /\ CloseRequestedSend(t) /\ Unrecorded
    \/ \E t \in Threads : Alone(t) /\ Return(t) /\ Unrecorded

SpecOps == InitOps /\ [][NextOps]_vars

\* C12, as claimed: the cached override-redirect flag is the create event's,
\* whatever has happened since
OverrideRedirectFixed == cached.override_redirect = history.event.override_redirect

\* thread t receives a configure notify event
NotifyReceived(t) == pc[t] = "idle" /\ op'[t] = "configure_notify" /\ pc'[t] = "done"

\* C12: the cached override-redirect flag is the create event's at construction;
\* configure_notify makes it the configure notify event's, and no step of any other
\* operation changes it
OverrideRedirectFollowsNotify ==
    /\ cached.override_redirect = history.event.override_redirect
    /\ [][/\ \A t \in Threads :
                NotifyReceived(t) => cached'.override_redirect = arg'[t][1].override_redirect
          /\ (\A t \in Threads : ~NotifyReceived(t)) =>
                cached'.override_redirect = cached.override_redirect]_vars

\* a configure notify event has made override-redirect a window that was not created so
OverrideRedirectNotified ==
    /\ op["x11"] = "configure_notify"
    /\ pc["x11"] = "done"
    /\ cached.override_redirect
    /\ ~history.event.override_redirect

\* C18: when take_focus returns on a window that is override-redirect it has made
\* no call; on any other window it has sent the WM_TAKE_FOCUS client message, if and
\* only if the client supports that protocol, and then set the input focus to the
\* window and flushed
TakeFocusCalls ==
    \A t \in Threads :
        (op[t] = "take_focus" /\ pc[t] = "done") =>
            calls[t] =
                IF cached.override_redirect THEN <<>>
                ELSE (IF "WM_TAKE_FOCUS" \in cached.supported_wm_protocols
                      THEN <<Call("send_client_message", "WM_PROTOCOLS", "WM_TAKE_FOCUS")>>
                      ELSE <<>>)
                     \o <<Call("set_input_focus", "", OwnWindow), Call("flush", "", <<>>)>>

\* take_focus has sent the client message and set the focus on a window that is not
\* override-redirect, though created so
FocusTaken ==
    /\ op["x11"] = "take_focus"
    /\ pc["x11"] = "done"
    /\ history.event.override_redirect
    /\ Len(calls["x11"]) = 3
    /\ calls["x11"][1].call = "send_client_message"

\* C19: scene_surface_close_requested changes nothing of the bridge; when it returns
\* it has sent the WM_DELETE_WINDOW client message, if the client supports that
\* protocol, or else killed the client, and then flushed
CloseRequestedCalls ==
    /\ [](\A t \in Threads :
            (op[t] = "close_requested" /\ pc[t] = "done") =>
                calls[t] =
                    <<IF "WM_DELETE_WINDOW" \in cached.supported_wm_protocols
                      THEN Call("send_client_message", "WM_PROTOCOLS", "WM_DELETE_WINDOW")
                      ELSE Call("kill_client", "", OwnWindow),
                      Call("flush", "", <<>>)>>)
    /\ [][\A t \in Threads : op'[t] = "close_requested" => UNCHANGED bridge_vars]_vars

\* scene_surface_close_requested has killed a client that supports WM_TAKE_FOCUS alone
ClientKilled ==
    /\ op["wl"] = "close_requested"
    /\ pc["wl"] = "done"
    /\ cached.supported_wm_protocols = {"WM_TAKE_FOCUS"}
    /\ calls["wl"][1].call = "kill_client"

(***************************************************************************)
(* SpecRace: property notify events arrive on the connection thread while  *)
(* the compositor thread attaches and destroys wl_surfaces.  The window's  *)
(* properties stay as the client set them; window 2, which the window is   *)
(* transient for, has no bridge.                                           *)
(***************************************************************************)
InitRace ==
    /\ Constructed(CornerEvent)
    /\ TypicalClient
    /\ ThreadsIdle
    /\ logging = TRUE
    /\ history = <<>>

\* the properties the notify events of this specification name
RaceNotified == {"WM_CLASS", "WM_TRANSIENT_FOR"}

NextRace ==
    \/ \E property \in RaceNotified : PropertyNotifyBegin("x11", property) /\ Unrecorded
    \/ AttachBegin("wl") /\ Unrecorded
    \/ WlSurfaceDestroyed("wl") /\ Unrecorded
    \/ \E t \in Threads : InformLock(t) /\ Unrecorded
    \/ \E t \in Threads : InformWmState(t) /\ Unrecorded
    \/ \E t \in Threads : InformNetWmState(t) /\ Unrecorded
    \/ \E t \in Threads : CloseDesktop(t) /\ Unrecorded
    \/ \E t \in Threads : CloseUnmap(t) /\ Unrecorded
    \/ \E t \in Threads : CloseRemoveObserver(t) /\ Unrecorded
    \/ \E t \in Threads : CloseDestroy(t) /\ Unrecorded
    \/ \E t \in Threads : CloseObserver(t) /\ Unrecorded
    \/ \E t \in Threads : HandlerReply(t) /\ Unrecorded
    \/ \E t \in Threads : TransientLookup(t) /\ Unrecorded
    \/ \E t \in Threads : TransientFallback(t) /\ Unrecorded
    \/ \E t \in Threads : TransientWrite(t) /\ Unrecorded
    \/ \E t \in Threads : AttachRead(t) /\ Unrecorded
    \/ \E t \in Threads : AttachConsume(t) /\ Unrecorded
    \/ \E t \in Threads : AttachCreate(t) /\ Unrecorded
    \/ \E t \in Threads : AttachCreateFails(t) /\ Unrecorded
    \/ \E t \in Threads : AttachConfigure(t) /\ Unrecorded
    \/ \E t \in Threads : AttachPublish(t) /\ Unrecorded
    \/ \E t \in Threads : PropertyNotifyConsume(t) /\ Unrecorded
    \/ \E t \in Threads : PropertyNotifyModify(t) /\ Unrecorded
    \/ \E t \in Threads : Return(t) /\ Unrecorded

SpecRace == InitRace /\ [][NextRace]_vars

\* thread t's operation is waiting for the reply to a property read
Fetching(t) == pc[t] \in {"reply", "transient_fallback", "transient_write"}

\* C25: while attach waits for a reply, the reads of all five properties have been
\* issued; and the creation request it passes to create_surface has the application
\* id, the title and the parent its replies stored, whatever property notify events
\* the connection thread handles meanwhile
CreationCarriesReplies ==
    \A t \in Threads :
        op[t] = "attach" =>
            /\ Fetching(t) =>
                  SubSeq(calls[t], 1, Len(HandlerAtoms)) =
                      [i \in DOMAIN HandlerAtoms |-> Call("read_property", HandlerAtoms[i], <<>>)]
            /\ pc[t] = "attach_create" =>
                  /\ params.application_id = xprops.wm_class
                  /\ params.name = xprops.wm_name
                  /\ params.parent = Some(surface_of(reference))

\* thread t passes the locked section that calls consume_pending_spec
Consumes(t) ==
    /\ pc[t] \in {"attach_consume", "notify_consume"}
    /\ pc'[t] # pc[t]

\* a handler run by thread t's operation passes its locked section
Stores(t) == Fetching(t) /\ (pc'[t] # pc[t] \/ lhandler'[t] # lhandler[t])

\* the fields of the pending specification the handler of atom writes
written(atom) ==
    CASE atom = "WM_CLASS" -> {"application_id"}
      [] atom \in {"WM_NAME", "_NET_WM_NAME"} -> {"name"}
      [] atom = "WM_TRANSIENT_FOR" -> {"parent", "top_left", "aux_rect", "placement"}
      [] OTHER -> {}

\* C29: the bridge has no pending specification or one; a consume leaves none and
\* hands what there was to the consuming operation alone, property_notify keeping
\* it whole and attach taking its fields into the creation request, so that a
\* consume that follows another finds nothing; and the specification a handler
\* makes when there is none has no field set but the handler's own.  This with
\* attach and property_notify running on the two threads at once
ConsumedOnce ==
    /\ [](nullable_pending_spec = Unset \/ Len(nullable_pending_spec) = 1)
    /\ [][\A t \in Threads :
            /\ Consumes(t) =>
                  /\ nullable_pending_spec' = Unset
                  /\ \A u \in Threads \ {t} : lspec'[u] = lspec[u]
                  /\ op[t] = "property_notify" =>
                        (lspec'[t] = nullable_pending_spec /\ params' = params)
                  /\ op[t] = "attach" =>
                        /\ lspec' = lspec
                        /\ \A f \in {"application_id", "name", "parent"} :
                              params'[f] = IF IsSet(nullable_pending_spec)
                                              /\ IsSet(Value(nullable_pending_spec)[f])
                                           THEN Value(nullable_pending_spec)[f]
                                           ELSE params[f]
            /\ (Stores(t) /\ nullable_pending_spec = Unset /\ nullable_pending_spec' # Unset) =>
                  \A f \in DOMAIN EmptySpec \ written(lhandler[t]) :
                      Value(nullable_pending_spec')[f] = Unset]_vars

\* property_notify has consumed the specification attach's replies made and attach,
\* consuming after it, has found none
ConsumedByNotify ==
    /\ op["x11"] = "property_notify" /\ pc["x11"] = "notify_modify"
    /\ IsSet(lspec["x11"])
    /\ IsSet(Value(lspec["x11"]).name)
    /\ op["wl"] = "attach" /\ pc["wl"] = "attach_create"
    /\ params.name = Unset
    /\ nullable_pending_spec = Unset

(***************************************************************************)
(* SpecStalled: as SpecRace, with one of the two threads stalled: its      *)
(* property fetches may wait for their replies for ever.  The other        *)
(* thread's operations go on step by step, its replies arrive.             *)
(***************************************************************************)
InitStalled ==
    /\ Constructed(CornerEvent)
    /\ TypicalClient
    /\ ThreadsIdle
    /\ logging = TRUE
    /\ history \in [stalled : Threads]

\* a step of the operation in progress on thread t
RaceStep(t) ==
    \/ InformLock(t) \/ InformWmState(t) \/ InformNetWmState(t)
    \/ CloseDesktop(t) \/ CloseUnmap(t) \/ CloseRemoveObserver(t) \/ CloseDestroy(t)
    \/ CloseObserver(t)
    \/ HandlerReply(t) \/ TransientLookup(t) \/ TransientFallback(t) \/ TransientWrite(t)
    \/ AttachRead(t) \/ AttachConsume(t) \/ AttachCreate(t) \/ AttachConfigure(t)
    \/ AttachPublish(t)
    \/ PropertyNotifyConsume(t) \/ PropertyNotifyModify(t)
    \/ Return(t)

SpecStalled ==
    /\ InitStalled
    /\ [][NextRace]_vars
    /\ \A t \in Threads : WF_vars(history.stalled # t /\ RaceStep(t) /\ Unrecorded)

InitWithdraw ==
    /\ Constructed(CornerEvent)
    /\ FreshServer
    /\ ThreadsIdle
    /\ logging = FALSE
    /\ history = [closed |-> FALSE]

\* map() or an attach_wl_surface that passes its guard is called
Reopened == history' = [closed |-> FALSE]

\* the step of thread t that ends close() is taken, or another one
ClosedBy(t) == history' = [closed |-> history.closed \/ pc[t] = "close_observer"]

NextWithdraw ==
    \/ Alone("x11") /\ MapBegin("x11") /\ Reopened
    \/ op["wl"] # "attach" /\ CloseBegin("x11") /\ Unrecorded
    \/ Alone("wl") /\ AttachBegin("wl") /\ (IF AttachGuard THEN Unrecorded ELSE Reopened)
    \/ \E new_state \in ReportedStates : op["x11"] # "close" /\ SceneSurfaceStateSetBegin("wl", new_state) /\ Unrecorded
    \/ \E t \in Threads : InformLock(t) /\ ClosedBy(t)
    \/ \E t \in Threads : InformWmState(t) /\ ClosedBy(t)
    \/ \E t \in Threads : InformNetWmState(t) /\ ClosedBy(t)
    \/ \E t \in Threads : RequestLock(t) /\ ClosedBy(t)
    \/ \E t \in Threads : RequestModify(t) /\ ClosedBy(t)
    \/ \E t \in Threads : MapDesktop(t) /\ ClosedBy(t)
    \/ \E t \in Threads : MapWindow(t) /\ ClosedBy(t)
    \/ \E t \in Threads : CloseDesktop(t) /\ ClosedBy(t)
    \/ \E t \in Threads : CloseUnmap(t) /\ ClosedBy(t)
    \/ \E t \in Threads : CloseRemoveObserver(t) /\ ClosedBy(t)
    \/ \E t \in Threads : CloseDestroy(t) /\ ClosedBy(t)
    \/ \E t \in Threads : CloseObserver(t) /\ ClosedBy(t)
    \/ \E t \in Threads : HandlerReply(t) /\ ClosedBy(t)
    \/ \E t \in Threads : TransientLookup(t) /\ ClosedBy(t)
    \/ \E t \in Threads : TransientWrite(t) /\ ClosedBy(t)
    \/ \E t \in Threads : AttachRead(t) /\ ClosedBy(t)
    \/ \E t \in Threads : AttachConsume(t) /\ ClosedBy(t)
    \/ \E t \in Threads : AttachCreate(t) /\ ClosedBy(t)
    \/ \E t \in Threads : AttachCreateFails(t) /\ ClosedBy(t)
    \/ \E t \in Threads : AttachConfigure(t) /\ ClosedBy(t)
    \/ \E t \in Threads : AttachPublish(t) /\ ClosedBy(t)
    \/ \E t \in Threads : SceneSurfaceStateSetLower(t) /\ ClosedBy(t)

SpecWithdraw == InitWithdraw /\ [][NextWithdraw]_vars

\* C35: once close() has returned, and until map() or attach_wl_surface is called
\* again, the cached state is withdrawn and WM_STATE is not NORMAL or ICONIC: a
\* scene_surface_state_set in flight during the close() does not clear withdrawn
StaysWithdrawn ==
    history.closed =>
        /\ cached.state.withdrawn
        /\ xwin.wm_state \notin {Some(NORMAL), Some(ICONIC)}

(***************************************************************************)
(* SpecLate: the client changes WM_CLASS while the compositor thread       *)
(* attaches.  Each change queues one property notify event; the connection *)
(* thread handles the events once attach_wl_surface has asked the shell to *)
(* create the scene surface.  history.owed records that a change has been  *)
(* made whose event has not been handled yet.                              *)
(***************************************************************************)
InitLate ==
    /\ Constructed(CornerEvent)
    /\ TypicalClient
    /\ ThreadsIdle
    /\ logging = TRUE
    /\ history = [owed |-> FALSE]

\* the values the client gives WM_CLASS
ClassValues == {Some("a"), Some("b")}

\* the property changes: an event is queued
Queued == history' = [owed |-> TRUE]

\* the connection thread takes the event off its queue
Dequeued == history.owed /\ history' = [owed |-> FALSE]

\* attach_wl_surface's create_surface call has returned
SurfaceCreated == \E k \in SurfaceIds : surfaces[k].status = "alive"

NextLate ==
    \/ \E value \in ClassValues : ClientSetsClass(value) /\ Queued
    \/ SurfaceCreated /\ PropertyNotifyBegin("x11", "WM_CLASS") /\ Dequeued
    \/ AttachBegin("wl") /\ Unrecorded
    \/ \E t \in Threads : InformLock(t) /\ Unrecorded
    \/ \E t \in Threads : InformWmState(t) /\ Unrecorded
    \/ \E t \in Threads : InformNetWmState(t) /\ Unrecorded
    \/ \E t \in Threads : HandlerReply(t) /\ Unrecorded
    \/ \E t \in Threads : TransientLookup(t) /\ Unrecorded
    \/ \E t \in Threads : TransientFallback(t) /\ Unrecorded
    \/ \E t \in Threads : TransientWrite(t) /\ Unrecorded
    \/ \E t \in Threads : AttachRead(t) /\ Unrecorded
    \/ \E t \in Threads : AttachConsume(t) /\ Unrecorded
    \/ \E t \in Threads : AttachCreate(t) /\ Unrecorded
    \/ \E t \in Threads : AttachCreateFails(t) /\ Unrecorded
    \/ \E t \in Threads : AttachConfigure(t) /\ Unrecorded
    \/ \E t \in Threads : AttachPublish(t) /\ Unrecorded
    \/ \E t \in Threads : PropertyNotifyConsume(t) /\ Unrecorded
    \/ \E t \in Threads : PropertyNotifyModify(t) /\ Unrecorded
    \/ \E t \in Threads : Return(t) /\ Unrecorded

SpecLate == InitLate /\ [][NextLate]_vars

\* C36: a WM_CLASS change whose property notify event is handled after attach has
\* asked the shell to create the scene surface ends up in that scene surface: once
\* every queued event has been handled to its end and attach has published the
\* surface, the surface's application id is the window's WM_CLASS
LateChangeReflected ==
    (/\ ~history.owed
     /\ pc["x11"] \in {"idle", "done"}
     /\ Lock(weak_scene_surface) # 0) =>
        Some(surfaces[weak_scene_surface].application_id) = xprops.wm_class

(***************************************************************************)
(* SpecLocks: is_transient_for, lock by lock, called on the bridges of     *)
(* windows 1 and 2 by the two threads at once, with any window (itself     *)
(* included) as transient_for.  Window 2 gets and loses its bridge and its *)
(* scene surface while no call is in progress; the focus changes at any    *)
(* time.                                                                   *)
(***************************************************************************)
\* the windows whose bridges is_transient_for is called on, and the windows it is
\* called with: window 3 never has a bridge
LockBridges == {OwnWindow, 2}
LockWindows == {XCB_WINDOW_NONE, OwnWindow, 2, 3}

NextLocks ==
    \/ \E t \in Threads, bridge \in LockBridges, transient_for \in LockWindows : IsTransientForBegin(t, bridge, transient_for) /\ Unrecorded
    \/ \E w \in LockBridges \cup {XCB_WINDOW_NONE} : FocusChanges(w) /\ Unrecorded
    \/ AllIdle /\ OtherWindowChanges(2) /\ Unrecorded
    \/ \E t \in Threads : LookupLock(t) /\ Unrecorded
    \/ \E t \in Threads : LookupUnlock(t) /\ Unrecorded
    \/ \E t \in Threads : OwnLock(t) /\ Unrecorded
    \/ \E t \in Threads : OwnUnlock(t) /\ Unrecorded

SpecLocks == Init /\ [][NextLocks]_vars

\* thread t takes a mutex in this step
Acquires(t) == \E w \in DOMAIN mutex : mutex[w] # t /\ mutex'[w] = t

\* thread t is at a lock_guard, and the mutex it is about to take
AtLock(t) ==
    /\ op[t] = "is_transient_for"
    /\ \/ pc[t] = "own_lock"
       \/ pc[t] \in {"first_lookup", "focused_lookup"} /\ ltransient[t] \in xwm.bridges
wanted(t) == IF pc[t] = "own_lock" THEN arg[t][1] ELSE ltransient[t]

\* C37: a thread takes a bridge's mutex only while it holds none, its own bridge's
\* or another's; and a thread that is at a lock_guard finds the mutex free or held by
\* the other thread, which is not itself at a lock_guard: two bridges that resolve
\* each other at once, or a window transient for itself, do not deadlock
NoNestedLock ==
    /\ [][\A t \in Threads : Acquires(t) => \A w \in DOMAIN mutex : mutex[w] # t]_vars
    /\ [](\A t \in Threads :
            AtLock(t) =>
                \/ mutex[wanted(t)] = "free"
                \/ mutex[wanted(t)] # t /\ ~AtLock(mutex[wanted(t)]))

\* the bridges of windows 1 and 2 resolve each other at once, each thread holding
\* the other bridge's mutex
ResolveEachOther ==
    /\ arg["x11"] = <<OwnWindow, 2>> /\ pc["x11"] = "first_locked" /\ mutex[2] = "x11"
    /\ arg["wl"] = <<2, OwnWindow>> /\ pc["wl"] = "first_locked" /\ mutex[OwnWindow] = "wl"

(***************************************************************************)
(* SpecSelf: the window names itself, or window 2 (which has no bridge),   *)
(* as the window it is transient for, and is or is not the focused window. *)
(* One operation at a time: the compositor thread attaches, the connection *)
(* thread handles the property notify events for WM_TRANSIENT_FOR.         *)
(***************************************************************************)
\* the values the client gives WM_TRANSIENT_FOR in this specification
SelfValues == {Some(OwnWindow), Some(2)}

NextSelf ==
    \/ Alone("x11") /\ PropertyNotifyBegin("x11", "WM_TRANSIENT_FOR") /\ Unrecorded
    \/ Alone("wl") /\ AttachBegin("wl") /\ Unrecorded
    \/ \E value \in SelfValues : AllIdle /\ ClientSetsTransientFor(value) /\ Unrecorded
    \/ \E w \in {XCB_WINDOW_NONE, OwnWindow} : AllIdle /\ FocusChanges(w) /\ Unrecorded
    \/ \E t \in Threads : Alone(t) /\ InformLock(t) /\ Unrecorded
    \/ \E t \in Threads : Alone(t) /\ InformWmState(t) /\ Unrecorded
    \/ \E t \in Threads : Alone(t) /\ InformNetWmState(t) /\ Unrecorded
    \/ \E t \in Threads : Alone(t) /\ HandlerReply(t) /\ Unrecorded
    \/ \E t \in Threads : Alone(t) /\ TransientLookup(t) /\ Unrecorded
    \/ \E t \in Threads : Alone(t) /\ TransientFallback(t) /\ Unrecorded
    \/ \E t \in Threads : Alone(t) /\ TransientWrite(t) /\ Unrecorded
    \/ \E t \in Threads : Alone(t) /\ AttachRead(t) /\ Unrecorded
    \/ \E t \in Threads : Alone(t) /\ AttachConsume(t) /\ Unrecorded
    \/ \E t \in Threads : Alone(t) /\ AttachCreate(t) /\ Unrecorded
    \/ \E t \in Threads : Alone(t) /\ AttachCreateFails(t) /\ Unrecorded
    \/ \E t \in Threads : Alone(t) /\ AttachConfigure(t) /\ Unrecorded
    \/ \E t \in Threads : Alone(t) /\ AttachPublish(t) /\ Unrecorded
    \/ \E t \in Threads : Alone(t) /\ PropertyNotifyConsume(t) /\ Unrecorded
    \/ \E t \in Threads : Alone(t) /\ PropertyNotifyModify(t) /\ Unrecorded
    \/ \E t \in Threads : Alone(t) /\ Return(t) /\ Unrecorded

SpecSelf == InitRace /\ [][NextSelf]_vars

\* C38: the parent in the pending specification is never the window's own scene
\* surface, whether the window is transient for itself or is the focused window the
\* resolution falls back to
ParentIsAnother ==
    (IsSet(nullable_pending_spec) /\ IsSet(Value(nullable_pending_spec).parent)) =>
        \/ Value(Value(nullable_pending_spec).parent) = 0
        \/ Value(Value(nullable_pending_spec).parent) # Lock(weak_scene_surface)

(***************************************************************************)
(* SpecEcho: the scene surface reports states back, one operation at a     *)
(* time.  The connection thread maps the window and delivers the client    *)
(* messages; the compositor thread attaches and reports native states.     *)
(* history records, for the report being handled, the cached state it      *)
(* found and whether it is the echo of that state: the native state        *)
(* request_scene_surface_state asks for when that state is pushed.         *)
(***************************************************************************)
InitEcho ==
    /\ Constructed(CornerEvent)
    /\ FreshServer
    /\ ThreadsIdle
    /\ logging = TRUE
    /\ history = [echo |-> FALSE, pushed |-> InitialWindowState]

\* the native states the scene surface reports in this specification
EchoStates == {"restored", "minimized", "maximized", "fullscreen"}

\* scene_surface_state_set(new_state) is called
EchoNoted(new_state) ==
    history' = [echo |-> ~cached.state.withdrawn /\ new_state = mir_window_state(cached.state),
                pushed |-> cached.state]

NextEcho ==
    \/ Alone("x11") /\ MapBegin("x11") /\ Unrecorded
    \/ \E action \in Actions, properties \in NetWmStateProperties : Alone("x11") /\ NetWmStateBegin("x11", action, properties) /\ Unrecorded
    \/ Alone("wl") /\ AttachBegin("wl") /\ Unrecorded
    \/ \E new_state \in EchoStates : Alone("wl") /\ SceneSurfaceStateSetBegin("wl", new_state) /\ EchoNoted(new_state)
    \/ \E t \in Threads : Alone(t) /\ InformLock(t) /\ Unrecorded
    \/ \E t \in Threads : Alone(t) /\ InformWmState(t) /\ Unrecorded
    \/ \E t \in Threads : Alone(t) /\ InformNetWmState(t) /\ Unrecorded
    \/ \E t \in Threads : Alone(t) /\ RequestLock(t) /\ Unrecorded
    \/ \E t \in Threads : Alone(t) /\ RequestModify(t) /\ Unrecorded
    \/ \E t \in Threads : Alone(t) /\ MapDesktop(t) /\ Unrecorded
    \/ \E t \in Threads : Alone(t) /\ MapWindow(t) /\ Unrecorded
    \/ \E t \in Threads : Alone(t) /\ HandlerReply(t) /\ Unrecorded
    \/ \E t \in Threads : Alone(t) /\ TransientLookup(t) /\ Unrecorded
    \/ \E t \in Threads : Alone(t) /\ TransientWrite(t) /\ Unrecorded
    \/ \E t \in Threads : Alone(t) /\ AttachRead(t) /\ Unrecorded
    \/ \E t \in Threads : Alone(t) /\ AttachConsume(t) /\ Unrecorded
    \/ \E t \in Threads : Alone(t) /\ AttachCreate(t) /\ Unrecorded
    \/ \E t \in Threads : Alone(t) /\ AttachCreateFails(t) /\ Unrecorded
    \/ \E t \in Threads : Alone(t) /\ AttachConfigure(t) /\ Unrecorded
    \/ \E t \in Threads : Alone(t) /\ AttachPublish(t) /\ Unrecorded
    \/ \E t \in Threads : Alone(t) /\ SceneSurfaceStateSetLower(t) /\ Unrecorded
    \/ \E t \in Threads : Alone(t) /\ Return(t) /\ Unrecorded

SpecEcho == InitEcho /\ [][NextEcho]_vars

\* C39: while scene_surface_state_set handles the echo of the cached state of a
\* window that is not withdrawn, and when it has ended, the cached state is the one
\* it found, the window's WM_STATE and _NET_WM_STATE are the ones written for that
\* state, and the only call it has made, if any, is the configure_window that lowers
\* a minimized window: no property written, no modification submitted
EchoConverges ==
    \A t \in Threads :
        (op[t] = "scene_surface_state_set" /\ history.echo) =>
            /\ cached.state = history.pushed
            /\ xwin.wm_state = Some(wm_state_of(history.pushed))
            /\ xwin.net_wm_state = Some(net_wm_states_of(history.pushed))
            /\ \A i \in DOMAIN calls[t] : calls[t][i].call = "configure_window"

\* the echo of fullscreen has been handled for a window that is fullscreen and
\* maximized
EchoedFullscreen ==
    /\ op["wl"] = "scene_surface_state_set"
    /\ pc["wl"] = "done"
    /\ arg["wl"] = <<"fullscreen">>
    /\ history.echo
    /\ cached.state.fullscreen
    /\ cached.state.maximized

====
